---------------------------- MODULE Spec2Model ----------------------------
(***************************************************************************)
(* A model of json5pp (src/json5pp.hpp, the manipulator-based version      *)
(* that begins at line 1048): the value class, the rule flags and          *)
(* manipulators, the recursive-descent parser over a std::istream and the  *)
(* stringifier.                                                            *)
(*                                                                         *)
(* Characters are the ints istream::get() returns: a byte 0..255, or EOF.  *)
(* A text is a sequence of bytes.  A number payload is kept as a decimal   *)
(* sign * m * 10^e (m without trailing zeros), exact up to Precision       *)
(* significant digits; the rounding of binary doubles is not represented,  *)
(* the six-significant-digit rounding of operator<<(double) is.  The       *)
(* unsigned long long accumulators of parse_number keep their 64 bits.     *)
(***************************************************************************)
EXTENDS Integers, Sequences, FiniteSets, TLC

VARIABLES
  input,      \* the bytes held by the input medium (the istream's buffer)
  in_pos,     \* the istream's read position: bytes consumed so far
  in_fail,    \* the istream's failbit (set by a get() at end of input)
  flags,      \* context_base::flags of the context in use
  indent,     \* context_base::indent of the context in use
  dest,       \* the value handed to the context (istream >> v), or the local v of parse()
  outcome,    \* how the last call ended: "none", "value", "syntax_error"
  error,      \* the syntax_error raised last: [ch, context]
  returned,   \* the values returned so far by successful parse calls on this medium
  call,       \* the last operation performed, with its arguments
  output,     \* the bytes written to the output medium by stringify
  vals,       \* value objects of the program: name -> value
  segments,   \* how the medium was filled: the texts it was composed of
  applied     \* the number of manipulators applied to the context so far

vars == <<input, in_pos, in_fail, flags, indent, dest, outcome, error,
          returned, call, output, vals, segments, applied>>

-----------------------------------------------------------------------------
(* Characters *)

\* std::char_traits<char>::eof()
EOF == 0 - 1

\* The ASCII codes of the characters the model writes as literals.
CharCode ==
  ("\t" :> 9) @@ ("\n" :> 10) @@ ("\r" :> 13) @@ (" " :> 32) @@
  ("\"" :> 34) @@ ("$" :> 36) @@ ("'" :> 39) @@ ("*" :> 42) @@ ("+" :> 43) @@
  ("," :> 44) @@ ("-" :> 45) @@ ("." :> 46) @@ ("/" :> 47) @@
  ("0" :> 48) @@ ("1" :> 49) @@ ("2" :> 50) @@ ("3" :> 51) @@ ("4" :> 52) @@
  ("5" :> 53) @@ ("6" :> 54) @@ ("7" :> 55) @@ ("8" :> 56) @@ ("9" :> 57) @@
  (":" :> 58) @@ ("A" :> 65) @@ ("C" :> 67) @@ ("D" :> 68) @@ ("E" :> 69) @@
  ("F" :> 70) @@ ("I" :> 73) @@
  ("N" :> 78) @@ ("Z" :> 90) @@ ("[" :> 91) @@ ("\\" :> 92) @@ ("]" :> 93) @@
  ("_" :> 95) @@ ("a" :> 97) @@ ("b" :> 98) @@ ("c" :> 99) @@ ("d" :> 100) @@
  ("e" :> 101) @@ ("f" :> 102) @@ ("g" :> 103) @@
  ("i" :> 105) @@ ("l" :> 108) @@ ("n" :> 110) @@ ("r" :> 114) @@
  ("s" :> 115) @@ ("t" :> 116) @@ ("u" :> 117) @@ ("x" :> 120) @@
  ("y" :> 121) @@ ("z" :> 122) @@ ("{" :> 123) @@ ("}" :> 125)

\* The int value of a character literal, as in (ch == '[').
C(c) == CharCode[c]

\* The bytes of a string literal written one character per element.
Txt(s) == [i \in 1..Len(s) |-> CharCode[s[i]]]

-----------------------------------------------------------------------------
(* impl::flags: a flags_type word is the set of its one-bits *)

single_line_comment    == {0}
multi_line_comment     == {1}
explicit_plus_sign     == {2}
leading_decimal_point  == {3}
trailing_decimal_point == {4}
infinity_number        == {5}
not_a_number           == {6}
hexadecimal            == {7}
single_quote           == {8}
multi_line_string      == {9}
trailing_comma         == {10}
unquoted_key           == {11}
json5_rules            == 0..11
all_rules              == json5_rules
crlf_newline           == {14}
finished               == {15}

\* context_base::has_flag: (this->flags & flags) != 0
has_flag(fl, f) == (fl \cap f) # {}

-----------------------------------------------------------------------------
(* std::istream over the text `in`; a stream state is [pos, fail, eofs]:
   eofs counts the calls of get() that found no byte to give *)

\* istream::get(): the next byte, or EOF with failbit set at end of input
\* or when the stream has already failed.
get(in, s) ==
  IF s.fail \/ s.pos >= Len(in)
    THEN [s |-> [pos |-> s.pos, fail |-> TRUE, eofs |-> s.eofs + 1],
          ch |-> EOF]
    ELSE [s |-> [pos |-> s.pos + 1, fail |-> FALSE, eofs |-> s.eofs],
          ch |-> in[s.pos + 1]]

\* a faulty variant of unget(): the look-ahead byte is not given back
unget_nothing(s) == s

\* istream::unget(): steps back one byte; does nothing on a failed stream
\* (the sentry fails), and fails at the beginning of the buffer.
unget(s) ==
  IF s.fail THEN s
  ELSE IF s.pos > 0 THEN [s EXCEPT !.pos = s.pos - 1]
  ELSE [s EXCEPT !.fail = TRUE]

-----------------------------------------------------------------------------
(* class value: a tagged union; the record holds the tag and the live member *)

TYPE_NULL    == "null"
TYPE_BOOLEAN == "boolean"
TYPE_NUMBER  == "number"
TYPE_STRING  == "string"
TYPE_ARRAY   == "array"
TYPE_OBJECT  == "object"

RECURSIVE Pow10(_)
\* std::pow(10, n) for n >= 0
Pow10(n) == IF n <= 0 THEN 1 ELSE 10 * Pow10(n - 1)

RECURSIVE Normalize(_, _)
\* The decimal m * 10^e with the trailing zeros of m moved into e.
Normalize(m, e) ==
  IF m = 0 THEN [m |-> 0, e |-> 0]
  ELSE IF m % 10 = 0 THEN Normalize(m \div 10, e + 1)
  ELSE [m |-> m, e |-> e]

\* A finite double: (neg ? -1 : +1) * m * 10^e
Finite(neg, m, e) ==
  LET n == Normalize(m, e)
  IN  [kind |-> "finite", neg |-> neg, m |-> n.m, e |-> n.e]

\* std::numeric_limits<double>::infinity(), with its sign
Infinity(neg) == [kind |-> "inf", neg |-> neg, m |-> 0, e |-> 0]

\* std::numeric_limits<double>::quiet_NaN()
NaN == [kind |-> "nan", neg |-> FALSE, m |-> 0, e |-> 0]

\* value(nullptr), value(bool), value(double), value(const std::string&)
NullValue       == [type |-> TYPE_NULL]
BooleanValue(b) == [type |-> TYPE_BOOLEAN, boolean |-> b]
NumberValue(n)  == [type |-> TYPE_NUMBER, number |-> n]
StringValue(str) == [type |-> TYPE_STRING, string |-> str]

\* json5pp::array(elements): a value holding std::vector<value>
array(elements) == [type |-> TYPE_ARRAY, array |-> elements]

\* json5pp::object(elements): a value holding std::map<std::string, value>
object(elements) == [type |-> TYPE_OBJECT, object |-> elements]

\* std::map::emplace(key, nullptr): inserts only when the key is absent
emplace(elements, key) ==
  IF key \in DOMAIN elements THEN elements
  ELSE [k \in DOMAIN elements \cup {key} |->
          IF k = key THEN NullValue ELSE elements[k]]

-----------------------------------------------------------------------------
(* parse_context: character classes *)

is_digit(ch) == C("0") <= ch /\ ch <= C("9")

to_number(ch) == ch - C("0")

to_number_hex(ch) ==
  IF is_digit(ch) THEN to_number(ch)
  ELSE IF C("A") <= ch /\ ch <= C("F") THEN ch - C("A") + 10
  ELSE IF C("a") <= ch /\ ch <= C("f") THEN ch - C("a") + 10
  ELSE 0 - 1

is_alpha(ch) ==
  (C("A") <= ch /\ ch <= C("Z")) \/ (C("a") <= ch /\ ch <= C("z"))

RECURSIVE equals(_, _, _)
\* equals(ch, expected, sequence...): reads while the bytes match; ch is
\* the last byte read.
equals(in, s, expected) ==
  LET g == get(in, s)
  IN  IF g.ch # C(Head(expected)) THEN [s |-> g.s, ch |-> g.ch, ok |-> FALSE]
      ELSE IF Len(expected) = 1 THEN [s |-> g.s, ch |-> g.ch, ok |-> TRUE]
      ELSE equals(in, g.s, Tail(expected))

-----------------------------------------------------------------------------
(* A parse step returns the stream state, the state of the destination    *)
(* value and the syntax_error thrown, if any.                              *)

NoError == [ch |-> EOF, context |-> "none"]

\* throw syntax_error(ch, context_name)
syntax_error(ch, context_name) == [ch |-> ch, context |-> context_name]

Return(s, v) == [s |-> s, v |-> v, err |-> NoError]
Throw(s, v, ch, context_name) ==
  [s |-> s, v |-> v, err |-> syntax_error(ch, context_name)]
Threw(r) == r.err # NoError

RECURSIVE skip_line_to_newline(_, _)
\* a faulty variant of skip_line: the end of the input does not end the
\* loop, which reads on for the line end; it is cut off here at the third
\* read that finds no byte
skip_line_to_newline(in, s) ==
  LET g == get(in, s)
  IN  IF g.ch = C("\r") \/ g.ch = C("\n") \/ g.s.eofs >= 3 THEN g
      ELSE skip_line_to_newline(in, g.s)

RECURSIVE skip_line(_, _)
\* skip_spaces, the loop of a single line comment: reads up to EOF, CR or LF
skip_line(in, s) ==
  LET g == get(in, s)
  IN  IF g.ch = EOF \/ g.ch = C("\r") \/ g.ch = C("\n") THEN g
      ELSE skip_line(in, g.s)

RECURSIVE skip_block(_, _)
RECURSIVE reeval_asterisk(_, _, _)
\* skip_spaces, the loop of a multi line comment
skip_block(in, s) ==
  LET g == get(in, s) IN reeval_asterisk(in, g.s, g.ch)

\* skip_spaces, label reeval_asterisk; ok is FALSE when EOF ends the comment
reeval_asterisk(in, s, ch) ==
  IF ch = EOF THEN [s |-> s, ok |-> FALSE]
  ELSE IF ch # C("*") THEN skip_block(in, s)
  ELSE LET g == get(in, s)
       IN  IF g.ch = C("*") THEN reeval_asterisk(in, g.s, g.ch)
           ELSE IF g.ch = C("/") THEN [s |-> g.s, ok |-> TRUE]
           ELSE skip_block(in, g.s)

RECURSIVE skip_spaces(_, _, _)
RECURSIVE reeval_space(_, _, _, _)

\* a faulty variant of reeval_space: either comment flag enables both forms
reeval_space_coupled(in, s, fl, ch) ==
  IF ch = C("\t") \/ ch = C("\n") \/ ch = C("\r") \/ ch = C(" ")
    THEN skip_spaces(in, s, fl)
  ELSE IF ch = C("/") /\ has_flag(fl, single_line_comment \cup multi_line_comment)
    THEN LET g == get(in, s)
         IN  IF g.ch = C("/")
               THEN LET e == skip_line(in, g.s)
                    IN  reeval_space(in, e.s, fl, e.ch)
             ELSE IF g.ch = C("*")
               THEN LET b == skip_block(in, g.s)
                    IN  IF b.ok THEN skip_spaces(in, b.s, fl)
                        ELSE [s |-> b.s, ch |-> EOF,
                              err |-> syntax_error(EOF, "comment")]
             ELSE [s |-> g.s, ch |-> g.ch, err |-> NoError]
  ELSE [s |-> s, ch |-> ch, err |-> NoError]

\* parse_context::skip_spaces: the first non-space character in ch; err is
\* the syntax_error of an unterminated comment
skip_spaces(in, s, fl) ==
  LET g == get(in, s) IN reeval_space(in, g.s, fl, g.ch)

\* skip_spaces, label reeval_space
reeval_space(in, s, fl, ch) ==
  IF ch = C("\t") \/ ch = C("\n") \/ ch = C("\r") \/ ch = C(" ")
    THEN skip_spaces(in, s, fl)
  ELSE IF ch = C("/") /\ has_flag(fl, single_line_comment \cup multi_line_comment)
    THEN LET g == get(in, s)
         IN  IF has_flag(fl, single_line_comment) /\ g.ch = C("/")
               THEN LET e == skip_line(in, g.s)
                    IN  reeval_space(in, e.s, fl, e.ch)
             ELSE IF has_flag(fl, multi_line_comment) /\ g.ch = C("*")
               THEN LET b == skip_block(in, g.s)
                    IN  IF b.ok THEN skip_spaces(in, b.s, fl)
                        ELSE [s |-> b.s, ch |-> EOF,
                              err |-> syntax_error(EOF, "comment")]
             ELSE [s |-> g.s, ch |-> g.ch, err |-> NoError]
  ELSE [s |-> s, ch |-> ch, err |-> NoError]

-----------------------------------------------------------------------------
(* parse_context: the productions *)

\* parse_context::parse_null
parse_null(in, s, v) ==
  LET q == equals(in, s, <<"u", "l", "l">>)
  IN  IF q.ok THEN Return(q.s, NullValue)
      ELSE Throw(q.s, v, q.ch, "null")

\* parse_context::parse_boolean
parse_boolean(in, s, v, ch) ==
  IF ch = C("t")
    THEN LET q == equals(in, s, <<"r", "u", "e">>)
         IN  IF q.ok THEN Return(q.s, BooleanValue(TRUE))
             ELSE Throw(q.s, v, q.ch, "boolean")
    ELSE LET q == equals(in, s, <<"a", "l", "s", "e">>)
         IN  IF q.ok THEN Return(q.s, BooleanValue(FALSE))
             ELSE Throw(q.s, v, q.ch, "boolean")

\* unsigned long long: a 64-bit word as four 16-bit limbs, the lowest first
u64_zero == <<0, 0, 0, 0>>

\* x *= 10; x += d; on unsigned long long, that is modulo 2^64
u64_times10_plus(x, d) ==
  LET a == x[1] * 10 + d
      b == x[2] * 10 + (a \div 65536)
      c == x[3] * 10 + (b \div 65536)
      e == x[4] * 10 + (c \div 65536)
  IN  <<a % 65536, b % 65536, c % 65536, e % 65536>>

\* x / 10 and x % 10 on unsigned long long
u64_divmod10(x) ==
  LET e == x[4]
      c == (e % 10) * 65536 + x[3]
      b == (c % 10) * 65536 + x[2]
      a == (b % 10) * 65536 + x[1]
  IN  [q |-> <<a \div 10, b \div 10, c \div 10, e \div 10>>, r |-> a % 10]

RECURSIVE u64_digits(_)
\* the decimal digits of an unsigned long long, the highest first, none for 0
u64_digits(x) ==
  IF x = u64_zero THEN <<>>
  ELSE Append(u64_digits(u64_divmod10(x).q), u64_divmod10(x).r)

\* the number of significant decimal digits a double of the model keeps
Precision == 8

RECURSIVE digits_value(_)
\* the integer that a sequence of decimal digits spells
digits_value(ds) ==
  IF ds = <<>> THEN 0
  ELSE digits_value(SubSeq(ds, 1, Len(ds) - 1)) * 10 + ds[Len(ds)]

RECURSIVE significant(_)
\* a sequence of decimal digits without its leading zeros
significant(ds) ==
  IF ds # <<>> /\ ds[1] = 0 THEN significant(Tail(ds)) ELSE ds

\* the conversion to double of the decimal ds * 10^e: exact up to Precision
\* significant digits, the digits beyond them are dropped
to_double(negative, ds, e) ==
  IF Len(significant(ds)) <= Precision
    THEN Finite(negative, digits_value(significant(ds)), e)
    ELSE Finite(negative,
                digits_value(SubSeq(significant(ds), 1, Precision)),
                e + Len(significant(ds)) - Precision)

RECURSIVE read_digits(_, _, _, _, _)
\* The digit loops of parse_number on int_part and frac_part: from the byte
\* ch already read, while it is a digit accumulate it in the unsigned long
\* long acc and read the next; n counts the digits.
read_digits(in, s, ch, acc, n) ==
  IF is_digit(ch)
    THEN LET g == get(in, s)
         IN  read_digits(in, g.s, g.ch, u64_times10_plus(acc, to_number(ch)),
                         n + 1)
    ELSE [s |-> s, ch |-> ch, acc |-> acc, n |-> n]

RECURSIVE read_exp_digits(_, _, _, _, _)
\* The digit loop of parse_number on exp_part, an int
read_exp_digits(in, s, ch, acc, n) ==
  IF is_digit(ch)
    THEN LET g == get(in, s)
         IN  read_exp_digits(in, g.s, g.ch, acc * 10 + to_number(ch), n + 1)
    ELSE [s |-> s, ch |-> ch, acc |-> acc, n |-> n]

\* the decimal digits of int_part followed by those of the fraction
mantissa_digits(int_part, frac_part, frac_divs) ==
  IF frac_part # u64_zero
    THEN u64_digits(int_part)
           \o [i \in 1..(frac_divs - Len(u64_digits(frac_part))) |-> 0]
           \o u64_digits(frac_part)
    ELSE u64_digits(int_part)

\* parse_number, the last lines: the double built from the parts
number_value(negative, int_part, frac_part, frac_divs, exp_part, exp_negative) ==
  LET e == IF frac_part # u64_zero THEN 0 - frac_divs ELSE 0
      x == IF exp_part > 0
             THEN (IF exp_negative THEN 0 - exp_part ELSE exp_part)
             ELSE 0
  IN  to_double(negative, mantissa_digits(int_part, frac_part, frac_divs),
                e + x)

\* parse_number, from [exp] to the end; ch is the byte after the mantissa
parse_number_exp(in, s, v, ch, negative, int_part, frac_part, frac_divs) ==
  IF ch = C("e") \/ ch = C("E")
    THEN LET g == get(in, s)
             exp_negative == (g.ch = C("-"))
             h == IF g.ch = C("-") \/ g.ch = C("+") THEN get(in, g.s) ELSE g
             d == read_exp_digits(in, h.s, h.ch, 0, 0)
         IN  IF d.n = 0 THEN Throw(d.s, v, d.ch, "number")
             ELSE Return(unget(d.s),
                    NumberValue(number_value(negative, int_part, frac_part,
                                             frac_divs, d.acc, exp_negative)))
    ELSE Return(unget(s),
           NumberValue(number_value(negative, int_part, frac_part,
                                    frac_divs, 0, FALSE)))

\* parse_number, from [frac] on; ch is the byte after the integer part
parse_number_frac(in, s, fl, v, ch, negative, int_part) ==
  IF ch = C(".")
    THEN LET g == get(in, s)
             d == read_digits(in, g.s, g.ch, u64_zero, 0)
         IN  IF (~has_flag(fl, trailing_decimal_point)) /\ d.n = 0
               THEN Throw(d.s, v, d.ch, "number")
               ELSE parse_number_exp(in, d.s, v, d.ch, negative, int_part,
                                     d.acc, d.n)
    ELSE parse_number_exp(in, s, v, ch, negative, int_part, u64_zero, 0)

\* a faulty variant of parse_number: a 0 is read as any other digit
parse_number_zero_leading(in, s, fl, v, ch) ==
  LET negative == (ch = C("-"))
      g == IF ch = C("-") \/ (has_flag(fl, explicit_plus_sign) /\ ch = C("+"))
             THEN get(in, s)
             ELSE [s |-> s, ch |-> ch]
  IN  IF is_digit(g.ch)
        THEN LET d == read_digits(in, g.s, g.ch, u64_zero, 0)
             IN  parse_number_frac(in, d.s, fl, v, d.ch, negative, d.acc)
      ELSE IF has_flag(fl, leading_decimal_point) /\ g.ch = C(".")
        THEN parse_number_frac(in, g.s, fl, v, g.ch, negative, u64_zero)
      ELSE Throw(g.s, v, g.ch, "number")

\* parse_context::parse_number; ch is the first byte of the number
parse_number(in, s, fl, v, ch) ==
  LET negative == (ch = C("-"))
      g == IF ch = C("-") \/ (has_flag(fl, explicit_plus_sign) /\ ch = C("+"))
             THEN get(in, s)
             ELSE [s |-> s, ch |-> ch]
  IN  IF g.ch = C("0")
        THEN LET z == get(in, g.s)
             IN  parse_number_frac(in, z.s, fl, v, z.ch, negative, u64_zero)
      ELSE IF is_digit(g.ch)
        THEN LET d == read_digits(in, g.s, g.ch, u64_zero, 0)
             IN  parse_number_frac(in, d.s, fl, v, d.ch, negative, d.acc)
      ELSE IF has_flag(fl, leading_decimal_point) /\ g.ch = C(".")
        THEN parse_number_frac(in, g.s, fl, v, g.ch, negative, u64_zero)
      ELSE IF has_flag(fl, infinity_number) /\ g.ch = C("i")
        THEN LET q == equals(in, g.s, <<"n", "f", "i", "n", "i", "t", "y">>)
             IN  IF q.ok THEN Return(q.s, NumberValue(Infinity(negative)))
                 ELSE Throw(q.s, v, q.ch, "number")
      ELSE IF has_flag(fl, not_a_number) /\ g.ch = C("N")
        THEN LET q == equals(in, g.s, <<"a", "N">>)
             IN  IF q.ok THEN Return(q.s, NumberValue(NaN))
                 ELSE Throw(q.s, v, q.ch, "number")
      ELSE Throw(g.s, v, g.ch, "number")

RECURSIVE read_hex4(_, _, _, _)
\* parse_string, case 'u': the loop over four hex digits
read_hex4(in, s, i, code) ==
  IF i = 4 THEN [s |-> s, ch |-> 0, code |-> code, ok |-> TRUE]
  ELSE LET g == get(in, s)
           n == to_number_hex(g.ch)
       IN  IF n < 0 THEN [s |-> g.s, ch |-> g.ch, code |-> code, ok |-> FALSE]
           ELSE read_hex4(in, g.s, i + 1, (code * 16 + n) % 65536)

\* a faulty variant of utf8: no code unit takes more than two bytes
utf8_two_bytes(code) ==
  IF code < 128 THEN <<code>>
  ELSE <<192 + ((code \div 64) % 32), 128 + (code % 64)>>

\* parse_string, case 'u': the UTF-8 bytes appended for a char16_t
utf8(code) ==
  IF code < 128 THEN <<code>>
  ELSE IF code < 2048 THEN <<192 + (code \div 64), 128 + (code % 64)>>
  ELSE <<224 + (code \div 4096), 128 + ((code \div 64) % 64), 128 + (code % 64)>>

RECURSIVE string_loop(_, _, _, _, _, _)
\* parse_string(buffer, quote, context_name), the for(;;) loop
string_loop(in, s, fl, buffer, quote, context_name) ==
  LET g == get(in, s)
      ch == g.ch
  IN  IF ch = quote THEN Return(g.s, buffer)
      ELSE IF ch < C(" ") THEN Throw(g.s, buffer, ch, context_name)
      ELSE IF ch # C("\\")
        THEN string_loop(in, g.s, fl, Append(buffer, ch), quote, context_name)
      ELSE
        LET e == get(in, g.s)
            app(c) == string_loop(in, e.s, fl, Append(buffer, c), quote, context_name)
        IN  IF e.ch = C("'")
              THEN IF ~has_flag(fl, single_quote)
                     THEN Throw(e.s, buffer, e.ch, context_name)
                     ELSE app(e.ch)
            ELSE IF e.ch = C("\"") \/ e.ch = C("\\") \/ e.ch = C("/") THEN app(e.ch)
            ELSE IF e.ch = C("b") THEN app(8)
            ELSE IF e.ch = C("f") THEN app(12)
            ELSE IF e.ch = C("n") THEN app(C("\n"))
            ELSE IF e.ch = C("r") THEN app(C("\r"))
            ELSE IF e.ch = C("t") THEN app(C("\t"))
            ELSE IF e.ch = C("u")
              THEN LET h == read_hex4(in, e.s, 0, 0)
                   IN  IF ~h.ok THEN Throw(h.s, buffer, h.ch, context_name)
                       ELSE string_loop(in, h.s, fl, buffer \o utf8(h.code),
                                        quote, context_name)
            ELSE IF e.ch = C("\r") /\ has_flag(fl, multi_line_string)
              THEN LET n == get(in, e.s)
                   IN  string_loop(in, IF n.ch # C("\n") THEN unget(n.s) ELSE n.s,
                                   fl, buffer, quote, context_name)
            ELSE IF e.ch = C("\n") /\ has_flag(fl, multi_line_string)
              THEN string_loop(in, e.s, fl, buffer, quote, context_name)
            ELSE Throw(e.s, buffer, e.ch, context_name)

\* parse_context::parse_string(std::string& buffer, int quote, const char*)
\* the result's v is the buffer
parse_string_buffer(in, s, fl, buffer, quote, context_name) ==
  IF ~(quote = C("\"") \/ (has_flag(fl, single_quote) /\ quote = C("'")))
    THEN Throw(s, buffer, quote, context_name)
    ELSE string_loop(in, s, fl, <<>>, quote, context_name)

\* parse_context::parse_string(value& v, int quote)
parse_string(in, s, fl, v, quote) ==
  LET r == parse_string_buffer(in, s, fl, <<>>, quote, "string")
  IN  [s |-> r.s, v |-> StringValue(r.v), err |-> r.err]

RECURSIVE key_loop(_, _, _, _)
\* parse_key, the loop over the bytes of an unquoted key
key_loop(in, s, ch, buffer) ==
  IF ch = C("_") \/ ch = C("$") \/ is_alpha(ch)
     \/ (is_digit(ch) /\ buffer # <<>>)
    THEN LET g == get(in, s)
         IN  key_loop(in, g.s, g.ch, Append(buffer, ch))
  ELSE IF ch = C(":") THEN Return(unget(s), buffer)
  ELSE Throw(s, buffer, ch, "object-key")

\* parse_context::parse_key; the result's v is the key
parse_key(in, s, fl) ==
  LET k == skip_spaces(in, s, fl)
  IN  IF k.err # NoError THEN [s |-> k.s, v |-> <<>>, err |-> k.err]
      ELSE IF has_flag(fl, unquoted_key) /\ k.ch # C("\"") /\ k.ch # C("'")
        THEN key_loop(in, k.s, k.ch, <<>>)
      ELSE parse_string_buffer(in, k.s, fl, <<>>, k.ch, "object-key")

RECURSIVE parse(_, _, _, _, _)
RECURSIVE array_loop(_, _, _, _)
RECURSIVE object_loop(_, _, _, _)

\* parse_array: r is how parse(elem, "array") ended; the element is already
\* in the array (elements.emplace_back()) when parse throws out of it
array_element(in, fl, elements, r) ==
  IF Threw(r)
    THEN [s |-> r.s, v |-> array(Append(elements, r.v)), err |-> r.err]
    ELSE array_loop(in, r.s, fl, Append(elements, r.v))

\* a faulty variant of array_comma: the trailing comma adds a null element
array_comma_adding(in, fl, elements, g) ==
  IF g.ch = C("]") THEN Return(g.s, array(Append(elements, NullValue)))
  ELSE array_element(in, fl, elements,
                     parse(in, unget(g.s), fl, NullValue, "array"))

\* parse_array, after a comma with trailing_comma on: g is the next get()
array_comma(in, fl, elements, g) ==
  IF g.ch = C("]") THEN Return(g.s, array(elements))
  ELSE array_element(in, fl, elements,
                     parse(in, unget(g.s), fl, NullValue, "array"))

\* parse_array, one round of the for(;;) loop: k is what skip_spaces() gave
array_round(in, fl, elements, k) ==
  IF k.err # NoError THEN [s |-> k.s, v |-> array(elements), err |-> k.err]
  ELSE IF k.ch = C("]") THEN Return(k.s, array(elements))
  ELSE IF elements = <<>>
    THEN array_element(in, fl, elements,
                       parse(in, unget(k.s), fl, NullValue, "array"))
  ELSE IF k.ch # C(",") THEN Throw(k.s, array(elements), k.ch, "array")
  ELSE IF has_flag(fl, trailing_comma)
    THEN array_comma(in, fl, elements, get(in, k.s))
  ELSE array_element(in, fl, elements,
                     parse(in, k.s, fl, NullValue, "array"))

\* parse_array, the for(;;) loop; elements is v.as_array()
array_loop(in, s, fl, elements) ==
  array_round(in, fl, elements, skip_spaces(in, s, fl))

\* parse_context::parse_array
parse_array(in, s, fl, v) == array_loop(in, s, fl, <<>>)

\* a faulty variant of object_value: an entry that holds a value is kept
object_value_first_wins(in, fl, added, key, r) ==
  IF Threw(r)
    THEN [s |-> r.s, v |-> object([added EXCEPT ![key] = r.v]), err |-> r.err]
    ELSE object_loop(in, r.s, fl,
                     IF added[key] = NullValue
                       THEN [added EXCEPT ![key] = r.v] ELSE added)

\* parse_object: r is how parse(elem, "object") ended on the entry of key,
\* which elements.emplace() made (or found) before
object_value(in, fl, added, key, r) ==
  IF Threw(r)
    THEN [s |-> r.s, v |-> object([added EXCEPT ![key] = r.v]), err |-> r.err]
    ELSE object_loop(in, r.s, fl, [added EXCEPT ![key] = r.v])

\* parse_object, after the key: c is what skip_spaces() gave
object_colon(in, fl, elements, key, c) ==
  IF c.err # NoError THEN [s |-> c.s, v |-> object(elements), err |-> c.err]
  ELSE IF c.ch # C(":") THEN Throw(c.s, object(elements), c.ch, "object")
  ELSE object_value(in, fl, emplace(elements, key), key,
                    parse(in, c.s, fl, emplace(elements, key)[key], "object"))

\* parse_object: key is how parse_key() ended
object_key(in, fl, elements, key) ==
  IF Threw(key) THEN [s |-> key.s, v |-> object(elements), err |-> key.err]
  ELSE object_colon(in, fl, elements, key.v, skip_spaces(in, key.s, fl))

\* parse_object, after a comma with trailing_comma on: g is the next get()
object_comma(in, fl, elements, g) ==
  IF g.ch = C("}") THEN Return(g.s, object(elements))
  ELSE object_key(in, fl, elements, parse_key(in, unget(g.s), fl))

\* parse_object, one round of the for(;;) loop: k is what skip_spaces() gave
object_round(in, fl, elements, k) ==
  IF k.err # NoError THEN [s |-> k.s, v |-> object(elements), err |-> k.err]
  ELSE IF k.ch = C("}") THEN Return(k.s, object(elements))
  ELSE IF DOMAIN elements = {}
    THEN object_key(in, fl, elements, parse_key(in, unget(k.s), fl))
  ELSE IF k.ch # C(",") THEN Throw(k.s, object(elements), k.ch, "object")
  ELSE IF has_flag(fl, trailing_comma)
    THEN object_comma(in, fl, elements, get(in, k.s))
  ELSE object_key(in, fl, elements, parse_key(in, k.s, fl))

\* parse_object, the for(;;) loop; elements is v.as_object()
object_loop(in, s, fl, elements) ==
  object_round(in, fl, elements, skip_spaces(in, s, fl))

\* parse_context::parse_object
parse_object(in, s, fl, v) == object_loop(in, s, fl, <<>>)

\* parse(value&, const char*), the dispatch on k, what skip_spaces() gave
parse_dispatch(in, fl, v, context_name, k) ==
  IF k.err # NoError THEN [s |-> k.s, v |-> v, err |-> k.err]
  ELSE IF k.ch = C("{") THEN parse_object(in, k.s, fl, v)
  ELSE IF k.ch = C("[") THEN parse_array(in, k.s, fl, v)
  ELSE IF k.ch = C("\"") \/ k.ch = C("'")
    THEN parse_string(in, k.s, fl, v, k.ch)
  ELSE IF k.ch = C("n") THEN parse_null(in, k.s, v)
  ELSE IF k.ch = C("t") \/ k.ch = C("f") THEN parse_boolean(in, k.s, v, k.ch)
  ELSE IF is_digit(k.ch) \/ k.ch = C("-") \/ k.ch = C("+") \/ k.ch = C(".")
          \/ k.ch = C("i") \/ k.ch = C("N")
    THEN parse_number(in, k.s, fl, v, k.ch)
  ELSE Throw(k.s, v, k.ch, context_name)

\* parse_context::parse(value& v, const char* context_name): [value]
parse(in, s, fl, v, context_name) ==
  parse_dispatch(in, fl, v, context_name, skip_spaces(in, s, fl))

\* parse(value&, bool): the check after the value, k is what skip_spaces() gave
parse_rest(r, k) ==
  IF k.err # NoError THEN [s |-> k.s, v |-> r.v, err |-> k.err]
  ELSE IF k.ch # EOF THEN Throw(k.s, r.v, k.ch, "value")
  ELSE Return(k.s, r.v)

\* parse(value&, bool), after parse(v, "value") ended as r
parse_after(in, fl, fin, r) ==
  IF Threw(r) \/ ~fin THEN r
  ELSE parse_rest(r, skip_spaces(in, r.s, fl))

\* parse_context::parse(value& v, bool finished)
parse_finished(in, s, fl, v, fin) ==
  parse_after(in, fl, fin, parse(in, s, fl, v, "value"))

-----------------------------------------------------------------------------
(* Stringify *)

\* std::string(n, ch)
Repeat(n, ch) == [i \in 1..n |-> ch]

RECURSIVE DecimalDigits(_)
\* The decimal digits of n >= 0 as bytes, most significant first.
DecimalDigits(n) ==
  IF n < 10 THEN <<C("0") + n>>
  ELSE Append(DecimalDigits(n \div 10), C("0") + (n % 10))

\* m rounded to at most six significant digits (ties to even), as the
\* decimal q * 10^x with m ~ q * 10^x.
RoundSix(m) ==
  LET d == Len(DecimalDigits(m))
      p == Pow10(d - 6)
      q == m \div p
      r == m % p
      up == (2 * r > p) \/ (2 * r = p /\ q % 2 = 1)
  IN  IF d <= 6 THEN [q |-> m, x |-> 0]
      ELSE [q |-> IF up THEN q + 1 ELSE q, x |-> d - 6]

\* std::ostream << double with fmtflags(0) and the default precision 6
\* (printf's %g), for a finite double.
format_double(n) ==
  LET r == RoundSix(n.m)
      z == Normalize(r.q, n.e + r.x)
      ds == DecimalDigits(z.m)
      d == Len(ds)
      X == d - 1 + z.e
      sign == IF n.neg THEN <<C("-")>> ELSE <<>>
      absX == IF X < 0 THEN 0 - X ELSE X
      expo == (IF X < 0 THEN <<C("-")>> ELSE <<C("+")>>)
              \o (IF absX < 10 THEN <<C("0")>> ELSE <<>>)
              \o DecimalDigits(absX)
  IN  IF z.m = 0 THEN sign \o <<C("0")>>
      ELSE IF X < 0 - 4 \/ X >= 6
        THEN sign \o <<ds[1]>>
             \o (IF d > 1 THEN <<C(".")>> \o SubSeq(ds, 2, d) ELSE <<>>)
             \o <<C("e")>> \o expo
      ELSE IF X < 0
        THEN sign \o <<C("0"), C(".")>> \o Repeat(0 - X - 1, C("0")) \o ds
      ELSE IF d <= X + 1
        THEN sign \o ds \o Repeat(X + 1 - d, C("0"))
      ELSE sign \o SubSeq(ds, 1, X + 1) \o <<C(".")>> \o SubSeq(ds, X + 2, d)

\* stringify_string: "0123456789abcdef"[n]
hex(n) == IF n < 10 THEN C("0") + n ELSE C("a") + (n - 10)

\* value::stringify_string, the output for one byte of the string
stringify_char(ch) ==
  IF ch = C("\"") THEN <<C("\\"), C("\"")>>
  ELSE IF ch = C("\\") THEN <<C("\\"), C("\\")>>
  ELSE IF ch = 8 THEN <<C("\\"), C("b")>>
  ELSE IF ch = 12 THEN <<C("\\"), C("f")>>
  ELSE IF ch = C("\n") THEN <<C("\\"), C("n")>>
  ELSE IF ch = C("\r") THEN <<C("\\"), C("r")>>
  ELSE IF ch = C("\t") THEN <<C("\\"), C("t")>>
  ELSE IF ch < C(" ")
    THEN <<C("\\"), C("u"), C("0"), C("0"), hex((ch \div 16) % 16), hex(ch % 16)>>
  ELSE <<ch>>

RECURSIVE stringify_chars(_)
stringify_chars(str) ==
  IF str = <<>> THEN <<>>
  ELSE stringify_char(Head(str)) \o stringify_chars(Tail(str))

\* value::stringify_string
stringify_string(str) == <<C("\"")>> \o stringify_chars(str) \o <<C("\"")>>

RECURSIVE LexLess(_, _)
\* std::less<std::string>: byte-wise lexicographic order
LexLess(a, b) ==
  IF b = <<>> THEN FALSE
  ELSE IF a = <<>> THEN TRUE
  ELSE IF Head(a) # Head(b) THEN Head(a) < Head(b)
  ELSE LexLess(Tail(a), Tail(b))

RECURSIVE SortedKeys(_)
\* The iteration order of std::map<std::string, value>: ascending keys
SortedKeys(keys) ==
  IF keys = {} THEN <<>>
  ELSE LET least == CHOOSE k \in keys : \A o \in keys \ {k} : LexLess(k, o)
       IN  <<least>> \o SortedKeys(keys \ {least})

\* context_base::get_indent
get_indent(ind) ==
  IF ind > 0 THEN Repeat(ind, C(" "))
  ELSE IF ind < 0 THEN Repeat(0 - ind, C("\t"))
  ELSE <<>>

\* a faulty variant of get_newline: the newline is LF whatever the flags
get_newline_lf(fl) == <<C("\n")>>

\* context_base::get_newline
get_newline(fl) ==
  IF has_flag(fl, crlf_newline) THEN <<C("\r"), C("\n")>> ELSE <<C("\n")>>

RECURSIVE stringify_to(_, _, _, _)
RECURSIVE stringify_items(_, _, _, _, _, _)
RECURSIVE stringify_pairs(_, _, _, _, _, _, _)

\* stringify_to, the loops over content.array: delim, then each item
stringify_items(items, fl, ind, inner_indent, delim, i) ==
  IF i > Len(items) THEN <<>>
  ELSE delim
       \o (IF ind = 0 THEN <<>> ELSE get_newline(fl) \o inner_indent)
       \o stringify_to(items[i], fl, ind, inner_indent)
       \o stringify_items(items, fl, ind, inner_indent, <<C(",")>>, i + 1)

\* stringify_to, the loops over content.object: delim, then each pair
stringify_pairs(obj, keys, fl, ind, inner_indent, delim, i) ==
  IF i > Len(keys) THEN <<>>
  ELSE delim
       \o (IF ind = 0 THEN <<>> ELSE get_newline(fl) \o inner_indent)
       \o stringify_string(keys[i])
       \o (IF ind = 0 THEN <<C(":")>> ELSE <<C(":"), C(" ")>>)
       \o stringify_to(obj[keys[i]], fl, ind, inner_indent)
       \o stringify_pairs(obj, keys, fl, ind, inner_indent, <<C(",")>>, i + 1)

\* a faulty variant of stringify_number: one flag decides both literals
stringify_number_coupled(n, fl) ==
  IF n.kind = "nan"
    THEN IF ~has_flag(fl, infinity_number) THEN Txt(<<"n", "u", "l", "l">>)
         ELSE Txt(<<"N", "a", "N">>)
  ELSE IF n.kind = "inf"
    THEN IF ~has_flag(fl, infinity_number) THEN Txt(<<"n", "u", "l", "l">>)
         ELSE (IF n.neg THEN <<C("-")>> ELSE <<>>)
              \o Txt(<<"i", "n", "f", "i", "n", "i", "t", "y">>)
  ELSE format_double(n)

\* stringify_to, case TYPE_NUMBER
stringify_number(n, fl) ==
  IF n.kind = "nan"
    THEN IF ~has_flag(fl, not_a_number) THEN Txt(<<"n", "u", "l", "l">>)
         ELSE Txt(<<"N", "a", "N">>)
  ELSE IF n.kind = "inf"
    THEN IF ~has_flag(fl, infinity_number) THEN Txt(<<"n", "u", "l", "l">>)
         ELSE (IF n.neg THEN <<C("-")>> ELSE <<>>)
              \o Txt(<<"i", "n", "f", "i", "n", "i", "t", "y">>)
  ELSE format_double(n)

\* a faulty variant of stringify_array: no branch for content.array.empty()
stringify_array_open(items, fl, ind, cur_indent) ==
  IF ind = 0
    THEN <<C("[")>> \o stringify_items(items, fl, ind, <<>>, <<>>, 1)
         \o <<C("]")>>
  ELSE <<C("[")>>
       \o stringify_items(items, fl, ind, cur_indent \o get_indent(ind),
                          <<>>, 1)
       \o get_newline(fl) \o cur_indent \o <<C("]")>>

\* stringify_to, case TYPE_ARRAY
stringify_array(items, fl, ind, cur_indent) ==
  IF items = <<>> THEN <<C("["), C("]")>>
  ELSE IF ind = 0
    THEN stringify_items(items, fl, ind, <<>>, <<C("[")>>, 1) \o <<C("]")>>
  ELSE stringify_items(items, fl, ind, cur_indent \o get_indent(ind),
                       <<C("[")>>, 1)
       \o get_newline(fl) \o cur_indent \o <<C("]")>>

\* stringify_to, case TYPE_OBJECT
stringify_object(obj, fl, ind, cur_indent) ==
  IF DOMAIN obj = {} THEN <<C("{"), C("}")>>
  ELSE IF ind = 0
    THEN stringify_pairs(obj, SortedKeys(DOMAIN obj), fl, ind, <<>>,
                         <<C("{")>>, 1)
         \o <<C("}")>>
  ELSE stringify_pairs(obj, SortedKeys(DOMAIN obj), fl, ind,
                       cur_indent \o get_indent(ind), <<C("{")>>, 1)
       \o get_newline(fl) \o cur_indent \o <<C("}")>>

\* value::stringify_to(context, indent): the bytes written for v
stringify_to(v, fl, ind, cur_indent) ==
  CASE v.type = TYPE_BOOLEAN ->
         IF v.boolean THEN Txt(<<"t", "r", "u", "e">>)
         ELSE Txt(<<"f", "a", "l", "s", "e">>)
    [] v.type = TYPE_NUMBER -> stringify_number(v.number, fl)
    [] v.type = TYPE_STRING -> stringify_string(v.string)
    [] v.type = TYPE_ARRAY -> stringify_array(v.array, fl, ind, cur_indent)
    [] v.type = TYPE_OBJECT -> stringify_object(v.object, fl, ind, cur_indent)
    [] OTHER -> Txt(<<"n", "u", "l", "l">>)

\* value::stringify_to(context): the text written for v by ostream << v
stringify(v, fl, ind) == stringify_to(v, fl, ind, <<>>)

-----------------------------------------------------------------------------
(* impl::manipulator and namespace rule *)

\* manipulator(flags_set, flags_clear, indent_set, indent)
manipulator4(fs, fc, is, ind) ==
  [flags_set |-> fs, flags_clear |-> fc, indent_set |-> is, indent |-> ind]

\* manipulator(flags, set)
manipulator2(f, set) ==
  [flags_set |-> IF set THEN f ELSE {}, flags_clear |-> IF set THEN {} ELSE f,
   indent_set |-> FALSE, indent |-> 0]

\* conversion of an int to indent_type (std::int8_t)
ToInt8(x) == ((x + 128) % 256) - 128

rule_single_line_comment(allow)    == manipulator2(single_line_comment, allow)
rule_multi_line_comment(allow)     == manipulator2(multi_line_comment, allow)
rule_comments(allow) ==
  manipulator2(single_line_comment \cup multi_line_comment, allow)
rule_explicit_plus_sign(allow)     == manipulator2(explicit_plus_sign, allow)
rule_leading_decimal_point(allow)  == manipulator2(leading_decimal_point, allow)
rule_trailing_decimal_point(allow) == manipulator2(trailing_decimal_point, allow)
rule_decimal_points(allow) ==
  manipulator2(leading_decimal_point \cup trailing_decimal_point, allow)
rule_infinity_number(allow)        == manipulator2(infinity_number, allow)
rule_not_a_number(allow)           == manipulator2(not_a_number, allow)
rule_hexadecimal(allow)            == manipulator2(hexadecimal, allow)
rule_single_quote(allow)           == manipulator2(single_quote, allow)
rule_multi_line_string(allow)      == manipulator2(multi_line_string, allow)
rule_trailing_comma(allow)         == manipulator2(trailing_comma, allow)
rule_unquoted_key(allow)           == manipulator2(unquoted_key, allow)
\* a faulty variant of ecma404(): the JSON5 rules are switched on
rule_ecma404_lenient == manipulator4(json5_rules, all_rules, FALSE, 0)

\* a faulty variant of json5(): the newline style is reset as well
rule_json5_resetting == manipulator4(json5_rules, all_rules \cup crlf_newline, FALSE, 0)

rule_ecma404      == manipulator4({}, all_rules, FALSE, 0)
rule_json5        == manipulator4(json5_rules, all_rules, FALSE, 0)
rule_no_indent    == manipulator4({}, {}, TRUE, 0)
rule_tab_indent(tabs)     == manipulator4({}, {}, TRUE, ToInt8(0 - tabs))
rule_space_indent(spaces) == manipulator4({}, {}, TRUE, ToInt8(spaces))
rule_lf_newline   == manipulator2(crlf_newline, FALSE)
rule_crlf_newline == manipulator2(crlf_newline, TRUE)
rule_finished     == manipulator2(finished, TRUE)

\* a faulty variant of apply_manipulator: the bits are set, then cleared
apply_manipulator_clearing_last(ctx, manip) ==
  [flags  |-> (ctx.flags \cup manip.flags_set) \ manip.flags_clear,
   indent |-> IF manip.indent_set THEN manip.indent ELSE ctx.indent]

\* a faulty variant of apply_manipulator: the flags are overwritten
apply_manipulator_overwriting(ctx, manip) ==
  [flags  |-> manip.flags_set,
   indent |-> IF manip.indent_set THEN manip.indent ELSE ctx.indent]

\* context_base::apply_manipulator, on a context [flags, indent]
apply_manipulator(ctx, manip) ==
  [flags  |-> (ctx.flags \ manip.flags_clear) \cup manip.flags_set,
   indent |-> IF manip.indent_set THEN manip.indent ELSE ctx.indent]

\* context_base::context_base(): flags(0), indent(0)
context_base == [flags |-> {}, indent |-> 0]

-----------------------------------------------------------------------------
(* The input media the programs are run on *)

\* the number of fragments a composed medium holds at most
MaxFrags == 3

Fragments ==
  {Txt(<<"1">>), Txt(<<"0">>), Txt(<<"x">>), Txt(<<" ">>), Txt(<<"\n">>),
   Txt(<<"/">>), Txt(<<"*">>), Txt(<<"[">>), Txt(<<"]">>), Txt(<<",">>)}

RECURSIVE Concat(_)
Concat(ss) == IF ss = <<>> THEN <<>> ELSE Head(ss) \o Concat(Tail(ss))

FragmentSeqs == UNION {[1..n -> Fragments] : n \in 0..MaxFrags}

\* texts of the repository's tests and README, and variations of them
Corpus ==
  {Txt(<<"-","0","x","0","a","9","f">>),
   Txt(<<"0","x","1","F">>),
   Txt(<<"[","1",",","1",",","]">>),
   Txt(<<"{","a",":","1",",","}">>),
   Txt(<<"{","\"","a","\"",":","1",",","}">>),
   Txt(<<"{","a",":","1","}">>),
   Txt(<<"'","a","'">>),
   Txt(<<"N","a","N">>),
   Txt(<<"I","n","f","i","n","i","t","y">>),
   Txt(<<"-","I","n","f","i","n","i","t","y">>),
   Txt(<<"i","n","f","i","n","i","t","y">>),
   Txt(<<"/","/","x","\n","1">>),
   Txt(<<"1"," ","/","/","x">>),
   Txt(<<"/","*","x","*","/","1">>),
   Txt(<<"1","/","*","x","*","/"," ">>),
   Txt(<<"[","1",",","x">>),
   Txt(<<"[","1",",","[","1",",","x">>),
   Txt(<<"{","\"","a","\"",":","1",",","\"","b","\"",":","x">>),
   Txt(<<"\"","a","b">>),
   Txt(<<"\"","a","\""," ","x">>),
   Txt(<<"t","r","u","e"," ","f","a","l","s","e">>),
   Txt(<<"n","u","l","l","x">>),
   Txt(<<"[","1",",","1","]","]">>),
   Txt(<<"{","\"","a","\"",":","1","}",",">>),
   Txt(<<"+","1">>), Txt(<<".","1">>), Txt(<<"1",".">>),
   Txt(<<"\"","a","\n","b","\"">>)}

-----------------------------------------------------------------------------
(* The programs: operations on one input medium and one context *)

Stream == [pos |-> in_pos, fail |-> in_fail, eofs |-> 0]

Context == [flags |-> flags, indent |-> indent]

\* the parsing manipulators a program applies to its context
ParseManipulators ==
  {[name |-> "ecma404",     arg |-> 0, manip |-> rule_ecma404],
   [name |-> "json5",       arg |-> 0, manip |-> rule_json5],
   [name |-> "finished",    arg |-> 0, manip |-> rule_finished],
   [name |-> "hexadecimal", arg |-> 1, manip |-> rule_hexadecimal(TRUE)],
   [name |-> "hexadecimal", arg |-> 0, manip |-> rule_hexadecimal(FALSE)]}

\* the number of manipulators a program applies to its context at most
MaxApplied == 2

\* a program is over once an exception has been thrown out of it
Running == outcome \in {"none", "value"}

InitContext ==
  /\ in_pos = 0 /\ in_fail = FALSE
  /\ flags = context_base.flags /\ indent = context_base.indent
  /\ dest = NullValue
  /\ outcome = "none" /\ error = NoError
  /\ returned = <<>>
  /\ call = [op |-> "init", arg |-> [name |-> "none"]]
  /\ output = <<>>
  /\ applied = 0

InitParse ==
  /\ segments \in FragmentSeqs \cup {<<t>> : t \in Corpus}
  /\ input = Concat(segments)
  /\ vals = <<>>
  /\ InitContext

\* the effect of a parse call that ended as r on the medium and the program
Finish(r) ==
  /\ in_pos' = r.s.pos
  /\ in_fail' = r.s.fail
  /\ outcome' = IF Threw(r) THEN "syntax_error" ELSE "value"
  /\ error' = r.err
  /\ returned' = IF Threw(r) THEN returned ELSE Append(returned, r.v)

\* context >> manipulator, before the first value is read
ApplyManipulator(m) ==
  /\ outcome = "none" /\ applied < MaxApplied
  /\ flags' = apply_manipulator(Context, m.manip).flags
  /\ indent' = apply_manipulator(Context, m.manip).indent
  /\ call' = [op |-> "manipulator", arg |-> [name |-> m.name, arg |-> m.arg]]
  /\ applied' = applied + 1
  /\ UNCHANGED <<input, in_pos, in_fail, dest, outcome, error, returned,
                 output, vals, segments>>

\* context >> v
ContextParse ==
  /\ Running
  /\ LET r == parse_finished(input, Stream, flags, dest, FALSE)
     IN /\ Finish(r)
        /\ dest' = r.v
  /\ call' = [op |-> "context_parse",
              arg |-> [finished |-> FALSE, flags |-> flags, pos |-> in_pos,
                       eofs |-> parse_finished(input, Stream, flags, dest,
                                               FALSE).s.eofs]]
  /\ UNCHANGED <<input, flags, indent, output, vals, segments, applied>>

\* json5pp::parse(istream, finished) and json5pp::parse5(istream, finished):
\* a temporary context with the preset applied, and a local value
PublicParse(op, preset, fin) ==
  /\ Running
  /\ LET ctx == apply_manipulator(context_base, preset)
         r == parse_finished(input, Stream, ctx.flags, NullValue, fin)
     IN /\ Finish(r)
        /\ call' = [op |-> op,
                    arg |-> [finished |-> fin, flags |-> ctx.flags,
                             pos |-> in_pos, eofs |-> r.s.eofs]]
  /\ UNCHANGED <<input, flags, indent, dest, output, vals, segments, applied>>

CallParse(fin) == PublicParse("parse", rule_ecma404, fin)

CallParse5(fin) == PublicParse("parse5", rule_json5, fin)

NextParse ==
  \/ \E m \in ParseManipulators : ApplyManipulator(m)
  \/ ContextParse
  \/ \E fin \in BOOLEAN : CallParse(fin)
  \/ \E fin \in BOOLEAN : CallParse5(fin)

SpecParse == InitParse /\ [][NextParse]_vars

-----------------------------------------------------------------------------
(* Configuring a context: every manipulator of namespace rule *)

Allow(b) == IF b THEN 1 ELSE 0

\* the arguments tab_indent() and space_indent() are called with
IndentArgs == {0, 1, 2, 128, 200}

Toggles ==
  UNION {
    {[name |-> "single_line_comment", arg |-> Allow(b),
      manip |-> rule_single_line_comment(b)],
     [name |-> "multi_line_comment", arg |-> Allow(b),
      manip |-> rule_multi_line_comment(b)],
     [name |-> "explicit_plus_sign", arg |-> Allow(b),
      manip |-> rule_explicit_plus_sign(b)],
     [name |-> "leading_decimal_point", arg |-> Allow(b),
      manip |-> rule_leading_decimal_point(b)],
     [name |-> "trailing_decimal_point", arg |-> Allow(b),
      manip |-> rule_trailing_decimal_point(b)],
     [name |-> "infinity_number", arg |-> Allow(b),
      manip |-> rule_infinity_number(b)],
     [name |-> "not_a_number", arg |-> Allow(b),
      manip |-> rule_not_a_number(b)],
     [name |-> "hexadecimal", arg |-> Allow(b),
      manip |-> rule_hexadecimal(b)],
     [name |-> "single_quote", arg |-> Allow(b),
      manip |-> rule_single_quote(b)],
     [name |-> "multi_line_string", arg |-> Allow(b),
      manip |-> rule_multi_line_string(b)],
     [name |-> "trailing_comma", arg |-> Allow(b),
      manip |-> rule_trailing_comma(b)],
     [name |-> "unquoted_key", arg |-> Allow(b),
      manip |-> rule_unquoted_key(b)]} : b \in BOOLEAN}

Manipulators ==
  Toggles
  \cup {[name |-> "comments", arg |-> Allow(b), manip |-> rule_comments(b)]
          : b \in BOOLEAN}
  \cup {[name |-> "decimal_points", arg |-> Allow(b),
         manip |-> rule_decimal_points(b)] : b \in BOOLEAN}
  \cup {[name |-> "ecma404", arg |-> 0, manip |-> rule_ecma404],
        [name |-> "json5", arg |-> 0, manip |-> rule_json5],
        [name |-> "lf_newline", arg |-> 0, manip |-> rule_lf_newline],
        [name |-> "crlf_newline", arg |-> 0, manip |-> rule_crlf_newline],
        [name |-> "finished", arg |-> 0, manip |-> rule_finished],
        [name |-> "no_indent", arg |-> 0, manip |-> rule_no_indent]}
  \cup {[name |-> "tab_indent", arg |-> n, manip |-> rule_tab_indent(n)]
          : n \in IndentArgs}
  \cup {[name |-> "space_indent", arg |-> n, manip |-> rule_space_indent(n)]
          : n \in IndentArgs}

InitManip ==
  /\ segments = <<>>
  /\ input = <<>>
  /\ vals = <<>>
  /\ InitContext

NextManip == \E m \in Manipulators : ApplyManipulator(m)

SpecManip == InitManip /\ [][NextManip]_vars

-----------------------------------------------------------------------------
(* Configuring a context, then calling the public parse functions *)

PresetTexts ==
  {Txt(<<"1">>), Txt(<<"'","a","'">>), Txt(<<"[","1",",","1",",","]">>)}

InitPreset ==
  /\ segments \in {<<t>> : t \in PresetTexts}
  /\ input = Concat(segments)
  /\ vals = <<>>
  /\ InitContext

NextPreset ==
  \/ \E m \in Manipulators : ApplyManipulator(m)
  \/ \E fin \in BOOLEAN : CallParse(fin)
  \/ \E fin \in BOOLEAN : CallParse5(fin)

SpecPreset == InitPreset /\ [][NextPreset]_vars

-----------------------------------------------------------------------------
(* class value: construction, assignment, type checks and accessors *)

Types ==
  {TYPE_NULL, TYPE_BOOLEAN, TYPE_NUMBER, TYPE_STRING, TYPE_ARRAY, TYPE_OBJECT}

\* value::release(new_type): destroys the live member and sets the tag
release(v, new_type) == [type |-> new_type]

\* value(number_i_type): the int converted to double
IntegerValue(i) == NumberValue(Finite(i < 0, IF i < 0 THEN 0 - i ELSE i, 0))

\* value& operator=(null_type)
assign_null(v) == release(v, TYPE_NULL)

\* value& operator=(boolean_type)
assign_boolean(v, boolean) ==
  [type |-> release(v, TYPE_BOOLEAN).type, boolean |-> boolean]

\* a faulty variant of operator=(number_type): the tag is left as it was
assign_number_keeping_tag(v, number) == [type |-> v.type, number |-> number]

\* value& operator=(number_type)
assign_number(v, number) ==
  [type |-> release(v, TYPE_NUMBER).type, number |-> number]

\* value& operator=(number_i_type)
assign_integer(v, i) ==
  [type |-> release(v, TYPE_NUMBER).type, number |-> IntegerValue(i).number]

\* value& operator=(const string_type&)
assign_string(v, string) ==
  IF v.type = TYPE_STRING THEN [v EXCEPT !.string = string]
  ELSE [type |-> release(v, TYPE_STRING).type, string |-> string]

\* value& operator=(std::initializer_list<value>)
assign_array(v, elements) ==
  IF v.type = TYPE_ARRAY THEN [v EXCEPT !.array = elements]
  ELSE [type |-> release(v, TYPE_ARRAY).type, array |-> elements]

\* value& operator=(std::initializer_list<pair_type>)
assign_object(v, elements) ==
  IF v.type = TYPE_OBJECT THEN [v EXCEPT !.object = elements]
  ELSE [type |-> release(v, TYPE_OBJECT).type, object |-> elements]

\* a faulty variant of copy_content: the elements of an array or object
\* are not copied, the copy holds nulls in their places
copy_content_flat(t, src) ==
  CASE t = TYPE_BOOLEAN -> [type |-> t, boolean |-> src.boolean]
    [] t = TYPE_NUMBER  -> [type |-> t, number |-> src.number]
    [] t = TYPE_STRING  -> [type |-> t, string |-> src.string]
    [] t = TYPE_ARRAY   ->
         [type |-> t, array |-> [i \in DOMAIN src.array |-> NullValue]]
    [] t = TYPE_OBJECT  ->
         [type |-> t, object |-> [k \in DOMAIN src.object |-> NullValue]]
    [] OTHER            -> [type |-> t]

\* the switch of operator=(const value&) on the new tag t
copy_content(t, src) ==
  CASE t = TYPE_BOOLEAN -> [type |-> t, boolean |-> src.boolean]
    [] t = TYPE_NUMBER  -> [type |-> t, number |-> src.number]
    [] t = TYPE_STRING  -> [type |-> t, string |-> src.string]
    [] t = TYPE_ARRAY   -> [type |-> t, array |-> src.array]
    [] t = TYPE_OBJECT  -> [type |-> t, object |-> src.object]
    [] OTHER            -> [type |-> t]

\* value& operator=(const value& src), src another object than *this
assign_value(v, src) == copy_content(release(v, src.type).type, src)

\* value(const value& src) : type(TYPE_NULL) { *this = src; }
copy_construct(src) == assign_value(NullValue, src)

\* value(value&& src): the new object; the members move as they are
move_construct(src) == copy_content(src.type, src)

\* value(value&& src): what is left of src (src.type = TYPE_NULL)
moved_from(src) == [type |-> TYPE_NULL]

is_null(v)    == v.type = TYPE_NULL
is_boolean(v) == v.type = TYPE_BOOLEAN
is_number(v)  == v.type = TYPE_NUMBER
is_string(v)  == v.type = TYPE_STRING
is_array(v)   == v.type = TYPE_ARRAY
is_object(v)  == v.type = TYPE_OBJECT

\* the accessors: std::bad_cast thrown, or the member of content returned
\* (as_null returns nullptr, no member)
bad_cast == [ok |-> FALSE, member |-> "none"]
as_null(v) ==
  IF v.type # TYPE_NULL THEN bad_cast ELSE [ok |-> TRUE, member |-> "none"]
as_boolean(v) ==
  IF v.type # TYPE_BOOLEAN THEN bad_cast ELSE [ok |-> TRUE, member |-> "boolean"]
as_number(v) ==
  IF v.type # TYPE_NUMBER THEN bad_cast ELSE [ok |-> TRUE, member |-> "number"]
as_string(v) ==
  IF v.type # TYPE_STRING THEN bad_cast ELSE [ok |-> TRUE, member |-> "string"]
as_array(v) ==
  IF v.type # TYPE_ARRAY THEN bad_cast ELSE [ok |-> TRUE, member |-> "array"]
as_object(v) ==
  IF v.type # TYPE_OBJECT THEN bad_cast ELSE [ok |-> TRUE, member |-> "object"]

\* as_<t>() by the name of the variant
as(v, t) ==
  CASE t = TYPE_NULL    -> as_null(v)
    [] t = TYPE_BOOLEAN -> as_boolean(v)
    [] t = TYPE_NUMBER  -> as_number(v)
    [] t = TYPE_STRING  -> as_string(v)
    [] t = TYPE_ARRAY   -> as_array(v)
    [] t = TYPE_OBJECT  -> as_object(v)

-----------------------------------------------------------------------------
(* Programs that handle value objects *)

\* the objects of the program, by the name of the variable
Names == {"a", "b"}

\* no object lives under the name: not yet constructed, or destroyed
NoObject == [type |-> "none"]

Exists(x) == vals[x] # NoObject

\* the nesting depth of the containers a program builds at most
MaxDepth == 1

MaxOf(S) == IF S = {} THEN 0 ELSE CHOOSE m \in S : \A n \in S : n <= m

RECURSIVE Depth(_)
\* how deep the containers of v nest
Depth(v) ==
  IF v.type = TYPE_ARRAY
    THEN 1 + MaxOf({Depth(v.array[i]) : i \in DOMAIN v.array})
  ELSE IF v.type = TYPE_OBJECT
    THEN 1 + MaxOf({Depth(v.object[k]) : k \in DOMAIN v.object})
  ELSE 0

\* the native values the program constructs and assigns from
Scalars ==
  {NullValue, BooleanValue(FALSE), BooleanValue(TRUE),
   NumberValue(Finite(TRUE, 15, 0 - 1)), IntegerValue(7),
   StringValue(<<>>), StringValue(Txt(<<"a">>))}

InitValue ==
  /\ segments = <<>>
  /\ input = <<>>
  /\ InitContext
  /\ vals = [x \in Names |-> NoObject]

\* the initializer lists a program writes: empty, or one copy of an object
Elements == {<<>>} \cup {<<vals[y]>> : y \in {z \in Names :
                           Exists(z) /\ Depth(vals[z]) < MaxDepth}}

Pairs == {<<>>} \cup {(Txt(<<"a">>) :> vals[y]) : y \in {z \in Names :
                           Exists(z) /\ Depth(vals[z]) < MaxDepth}}

\* what an operation on value objects leaves alone
ValueFrame ==
  UNCHANGED <<input, in_pos, in_fail, flags, indent, dest, error, returned,
              output, segments, applied>>

Did(op, x) ==
  /\ call' = [op |-> op, arg |-> [name |-> x]]
  /\ outcome' = "value"
  /\ ValueFrame

\* value x(native): the constructors from null, bool, double, int, string,
\* and array({...}), object({...})
Construct(x) ==
  /\ Running /\ ~Exists(x)
  /\ \/ \E v \in Scalars : vals' = [vals EXCEPT ![x] = v]
     \/ \E e \in Elements : vals' = [vals EXCEPT ![x] = array(e)]
     \/ \E e \in Pairs : vals' = [vals EXCEPT ![x] = object(e)]
  /\ Did("construct", x)

\* value x(y)
CopyConstruct(x, y) ==
  /\ Running /\ ~Exists(x) /\ Exists(y)
  /\ vals' = [vals EXCEPT ![x] = copy_construct(vals[y])]
  /\ Did("copy_construct", x)

\* value x(std::move(y))
MoveConstruct(x, y) ==
  /\ Running /\ ~Exists(x) /\ Exists(y)
  /\ vals' = [vals EXCEPT ![x] = move_construct(vals[y]),
                          ![y] = moved_from(vals[y])]
  /\ Did("move_construct", x)

\* x = native
AssignNative(x) ==
  /\ Running /\ Exists(x)
  /\ \/ vals' = [vals EXCEPT ![x] = assign_null(vals[x])]
     \/ \E b \in BOOLEAN : vals' = [vals EXCEPT ![x] = assign_boolean(vals[x], b)]
     \/ vals' = [vals EXCEPT ![x] =
                   assign_number(vals[x], Finite(TRUE, 15, 0 - 1))]
     \/ vals' = [vals EXCEPT ![x] = assign_integer(vals[x], 7)]
     \/ \E str \in {<<>>, Txt(<<"a">>)} :
          vals' = [vals EXCEPT ![x] = assign_string(vals[x], str)]
     \/ \E e \in Elements : vals' = [vals EXCEPT ![x] = assign_array(vals[x], e)]
     \/ \E e \in Pairs : vals' = [vals EXCEPT ![x] = assign_object(vals[x], e)]
  /\ Did("assign", x)

\* x.as_array()[0] = native, x.as_object()["a"] = native
AssignElement(x) ==
  /\ Running /\ Exists(x)
  /\ \/ /\ as_array(vals[x]).ok /\ vals[x].array # <<>>
        /\ \/ vals' = [vals EXCEPT ![x].array[1] = assign_null(@)]
           \/ vals' = [vals EXCEPT ![x].array[1] = assign_integer(@, 7)]
           \/ vals' = [vals EXCEPT ![x].array[1] =
                         assign_string(@, Txt(<<"a">>))]
     \/ /\ as_object(vals[x]).ok /\ Txt(<<"a">>) \in DOMAIN vals[x].object
        /\ \/ vals' = [vals EXCEPT ![x].object[Txt(<<"a">>)] = assign_null(@)]
           \/ vals' = [vals EXCEPT ![x].object[Txt(<<"a">>)] =
                         assign_integer(@, 7)]
           \/ vals' = [vals EXCEPT ![x].object[Txt(<<"a">>)] =
                         assign_string(@, Txt(<<"a">>))]
  /\ Did("assign_element", x)

\* x = y, two objects
CopyAssign(x, y) ==
  /\ Running /\ Exists(x) /\ Exists(y) /\ x # y
  /\ vals' = [vals EXCEPT ![x] = assign_value(vals[x], vals[y])]
  /\ Did("copy_assign", x)

\* x goes out of scope: ~value()
Destroy(x) ==
  /\ Running /\ Exists(x)
  /\ vals' = [vals EXCEPT ![x] = NoObject]
  /\ Did("destroy", x)

\* x.as_<t>()
As(x, t) ==
  /\ Running /\ Exists(x)
  /\ call' = [op |-> "as", arg |-> [name |-> x, type |-> t, before |-> vals[x]]]
  /\ outcome' = IF as(vals[x], t).ok THEN "value" ELSE "bad_cast"
  /\ UNCHANGED vals
  /\ ValueFrame

NextValue ==
  \/ \E x \in Names : Construct(x)
  \/ \E x, y \in Names : CopyConstruct(x, y)
  \/ \E x, y \in Names : MoveConstruct(x, y)
  \/ \E x \in Names : AssignNative(x)
  \/ \E x \in Names : AssignElement(x)
  \/ \E x, y \in Names : CopyAssign(x, y)
  \/ \E x \in Names : Destroy(x)
  \/ \E x \in Names, t \in Types : As(x, t)

SpecValue == InitValue /\ [][NextValue]_vars

-----------------------------------------------------------------------------
(* Programs that read several values from one medium *)

\* the number of values a medium holds at most
MaxValues == 2

\* texts of single values, each with the value it denotes
StreamItems ==
  {[text  |-> Txt(<<"1","2">>),
    value |-> NumberValue(Finite(FALSE, 12, 0))],
   [text  |-> Txt(<<"-","0",".","5">>),
    value |-> NumberValue(Finite(TRUE, 5, 0 - 1))],
   [text  |-> Txt(<<"t","r","u","e">>),
    value |-> BooleanValue(TRUE)],
   [text  |-> Txt(<<"n","u","l","l">>),
    value |-> NullValue],
   [text  |-> Txt(<<"\"","a","\"">>),
    value |-> StringValue(Txt(<<"a">>))],
   [text  |-> Txt(<<"[","1",","," ","[","]","]">>),
    value |-> array(<<NumberValue(Finite(FALSE, 1, 0)), array(<<>>)>>)],
   [text  |-> Txt(<<"{","\"","a","\"",":","1","}">>),
    value |-> object(Txt(<<"a">>) :> NumberValue(Finite(FALSE, 1, 0)))]}

Separators == {Txt(<<" ">>), Txt(<<"\r","\n","\t">>)}

\* v1 s1 v2 s2 ... vk sk: every value is followed by whitespace, the last
\* one possibly by nothing
StreamSegments(k) ==
  {[i \in 1..(2 * k) |-> IF i % 2 = 1 THEN vs[(i + 1) \div 2].text
                         ELSE ss[i \div 2]] :
     vs \in [1..k -> StreamItems],
     ss \in {q \in [1..k -> Separators \cup {<<>>}] :
               \A i \in 1..(k - 1) : q[i] # <<>>}}

InitStream ==
  /\ segments \in UNION {StreamSegments(k) : k \in 1..MaxValues}
  /\ input = Concat(segments)
  /\ vals = <<>>
  /\ InitContext

StreamManipulators ==
  {[name |-> "ecma404", arg |-> 0, manip |-> rule_ecma404],
   [name |-> "json5",   arg |-> 0, manip |-> rule_json5]}

NextStream ==
  \/ \E m \in StreamManipulators : ApplyManipulator(m)
  \/ ContextParse
  \/ CallParse(FALSE)
  \/ CallParse5(FALSE)

SpecStream == InitStream /\ [][NextStream]_vars

-----------------------------------------------------------------------------
(* Programs that write a parsed value out and read it back *)

RoundTripTexts ==
  {Txt(<<"1","2","3","4","5","6","7">>),
   Txt(<<"1","2","3","4","5","6">>),
   Txt(<<"1","0","0","0","0","0","0">>),
   Txt(<<"-","0",".","5">>),
   Txt(<<"1","e","-","7">>),
   Txt(<<"1",".","5","e","1","0">>),
   Txt(<<"0">>),
   Txt(<<"t","r","u","e">>),
   Txt(<<"f","a","l","s","e">>),
   Txt(<<"n","u","l","l">>),
   Txt(<<"\"","\"">>),
   Txt(<<"\"","a","\\","n","\\","\"","b","\"">>),
   Txt(<<"\"","\\","u","0","0","e","9","\"">>),
   Txt(<<"[","]">>),
   Txt(<<"{","}">>),
   Txt(<<"[","1",",","[","t","r","u","e",",","n","u","l","l","]","]">>),
   Txt(<<"{","\"","b","\"",":","{","\"","a","\"",":","[","]","}",",",
         "\"","a","\"",":","\"","x","\"","}">>),
   Txt(<<"N","a","N">>),
   Txt(<<"-","i","n","f","i","n","i","t","y">>),
   Txt(<<"[","1",",","]">>),
   Txt(<<"{","a",":","'","x","'","}">>)}

RoundTripManipulators ==
  {[name |-> "ecma404", arg |-> 0, manip |-> rule_ecma404],
   [name |-> "json5",   arg |-> 0, manip |-> rule_json5],
   [name |-> "tab_indent",   arg |-> 1, manip |-> rule_tab_indent(1)],
   [name |-> "space_indent", arg |-> 2, manip |-> rule_space_indent(2)],
   [name |-> "crlf_newline", arg |-> 0, manip |-> rule_crlf_newline]}

InitRoundTrip ==
  /\ segments \in {<<t>> : t \in RoundTripTexts}
  /\ input = Concat(segments)
  /\ vals = <<>>
  /\ InitContext

\* ostream << manipulators << dest, with the rules of the context in use
Stringify ==
  /\ Running /\ call.op = "context_parse"
  /\ output' = stringify(dest, flags, indent)
  /\ call' = [op |-> "stringify", arg |-> [name |-> "none"]]
  /\ UNCHANGED <<input, in_pos, in_fail, flags, indent, dest, outcome, error,
                 returned, vals, segments, applied>>

\* a new medium holding the text written, a context with the same rules
\* on it, and context >> v into a new value
Reparse ==
  /\ Running /\ call.op = "stringify"
  /\ input' = output
  /\ segments' = <<output>>
  /\ LET r == parse_finished(output, [pos |-> 0, fail |-> FALSE, eofs |-> 0],
                             flags, NullValue, FALSE)
     IN /\ Finish(r)
        /\ dest' = r.v
  /\ call' = [op |-> "reparse",
              arg |-> [finished |-> FALSE, flags |-> flags, pos |-> 0]]
  /\ UNCHANGED <<flags, indent, output, vals, applied>>

NextRoundTrip ==
  \/ \E m \in RoundTripManipulators : ApplyManipulator(m)
  \/ ContextParse
  \/ Stringify
  \/ Reparse

SpecRoundTrip == InitRoundTrip /\ [][NextRoundTrip]_vars

-----------------------------------------------------------------------------
(* Programs that read one array or one object *)

\* the number of elements a container holds at most
MaxItems == 2

\* texts of elements, each with the value it denotes and whether it ends
\* with a trailing comma
ContainerItems ==
  {[text  |-> Txt(<<"2">>),
    value |-> NumberValue(Finite(FALSE, 2, 0)), trailing |-> FALSE],
   [text  |-> Txt(<<"\"","x","\"">>),
    value |-> StringValue(Txt(<<"x">>)), trailing |-> FALSE],
   [text  |-> Txt(<<"[","]">>),
    value |-> array(<<>>), trailing |-> FALSE],
   [text  |-> Txt(<<"[","1",",","2",",","]">>),
    value |-> array(<<NumberValue(Finite(FALSE, 1, 0)),
                      NumberValue(Finite(FALSE, 2, 0))>>),
    trailing |-> TRUE],
   [text  |-> Txt(<<"{","\"","a","\"",":","1",",","}">>),
    value |-> object(Txt(<<"a">>) :> NumberValue(Finite(FALSE, 1, 0))),
    trailing |-> TRUE]}

\* what stands between two elements, and between the last and the bracket
ItemSeparators == {Txt(<<",">>), Txt(<<" ">>)}
Tails == {<<>>, Txt(<<",">>)}

Keys == {Txt(<<"a">>), Txt(<<"b">>)}

KeyText(key) == Txt(<<"\"">>) \o key \o Txt(<<"\"",":">>)

\* open, then for each element its separator (none for the first), its key
\* (none in an array) and its text, then the tail and the closing bracket
ContainerSegments(n) ==
  {[i \in 1..(3 * n + 3) |->
      IF i = 1 THEN (IF obj THEN Txt(<<"{">>) ELSE Txt(<<"[">>))
      ELSE IF i = 3 * n + 2 THEN tail
      ELSE IF i = 3 * n + 3 THEN (IF obj THEN Txt(<<"}">>) ELSE Txt(<<"]">>))
      ELSE IF i % 3 = 2 THEN (IF i = 2 THEN <<>> ELSE seps[(i + 1) \div 3])
      ELSE IF i % 3 = 0 THEN (IF obj THEN KeyText(keys[i \div 3]) ELSE <<>>)
      ELSE its[i \div 3].text] :
     obj \in BOOLEAN, tail \in Tails,
     its \in [1..n -> ContainerItems],
     seps \in [1..n -> ItemSeparators],
     keys \in [1..n -> Keys]}

InitContainer ==
  /\ segments \in UNION {ContainerSegments(n) : n \in 1..MaxItems}
  /\ input = Concat(segments)
  /\ vals = <<>>
  /\ InitContext

ContainerManipulators ==
  {[name |-> "trailing_comma", arg |-> Allow(b),
    manip |-> rule_trailing_comma(b)] : b \in BOOLEAN}

NextContainer ==
  \/ \E m \in ContainerManipulators : ApplyManipulator(m)
  \/ ContextParse
  \/ \E fin \in BOOLEAN : CallParse(fin)
  \/ \E fin \in BOOLEAN : CallParse5(fin)

SpecContainer == InitContainer /\ [][NextContainer]_vars

-----------------------------------------------------------------------------
(* Programs that write one value the program constructed *)

One == NumberValue(Finite(FALSE, 1, 0))
Two == NumberValue(Finite(FALSE, 2, 0))

StringifyValues ==
  <<NullValue, BooleanValue(TRUE), One, StringValue(Txt(<<"x">>)),
   NumberValue(NaN), NumberValue(Infinity(FALSE)), NumberValue(Infinity(TRUE)),
   array(<<>>), object(<<>>),
   array(<<One, Two>>),
   array(<<NullValue, NumberValue(Finite(FALSE, 123, 0)), NullValue>>),
   array(<<NumberValue(NaN), NumberValue(Infinity(FALSE)),
           NumberValue(Infinity(TRUE))>>),
   array(<<array(<<>>), object(<<>>), array(<<array(<<>>)>>)>>),
   array(<<array(<<One, array(<<Two>>)>>), Two>>),
   object(Txt(<<"a">>) :> One @@ Txt(<<"b">>) :> array(<<Two>>)),
   object(Txt(<<"b">>) :> object(<<>>)
          @@ Txt(<<"a">>) :> object(Txt(<<"x">>) :> array(<<>>)))>>

\* the arguments tab_indent() and space_indent() are called with
StringifyIndents == {0, 1, 3, 127, 128, 255}

StringifyManipulators ==
  {[name |-> "no_indent", arg |-> 0, manip |-> rule_no_indent],
   [name |-> "lf_newline", arg |-> 0, manip |-> rule_lf_newline],
   [name |-> "crlf_newline", arg |-> 0, manip |-> rule_crlf_newline],
   [name |-> "ecma404", arg |-> 0, manip |-> rule_ecma404],
   [name |-> "json5", arg |-> 0, manip |-> rule_json5]}
  \cup {[name |-> "tab_indent", arg |-> n, manip |-> rule_tab_indent(n)]
          : n \in StringifyIndents}
  \cup {[name |-> "space_indent", arg |-> n, manip |-> rule_space_indent(n)]
          : n \in StringifyIndents}
  \cup {[name |-> "not_a_number", arg |-> Allow(b),
         manip |-> rule_not_a_number(b)] : b \in BOOLEAN}
  \cup {[name |-> "infinity_number", arg |-> Allow(b),
         manip |-> rule_infinity_number(b)] : b \in BOOLEAN}

InitStringify ==
  /\ segments = <<>>
  /\ input = <<>>
  /\ vals = <<>>
  /\ in_pos = 0 /\ in_fail = FALSE
  /\ flags = context_base.flags /\ indent = context_base.indent
  /\ \E i \in DOMAIN StringifyValues : dest = StringifyValues[i]
  /\ outcome = "none" /\ error = NoError
  /\ returned = <<>>
  /\ call = [op |-> "init", arg |-> [name |-> "none"]]
  /\ output = <<>>
  /\ applied = 0

\* ostream << manipulators << dest, dest being a value the program made
StringifyValue ==
  /\ outcome = "none"
  /\ output' = stringify(dest, flags, indent)
  /\ outcome' = "written"
  /\ call' = [op |-> "stringify_value",
              arg |-> IF call.op = "manipulator" THEN call.arg
                      ELSE [name |-> "none", arg |-> 0]]
  /\ UNCHANGED <<input, in_pos, in_fail, flags, indent, dest, error,
                 returned, vals, segments, applied>>

NextStringify ==
  \/ \E m \in StringifyManipulators : ApplyManipulator(m)
  \/ StringifyValue

SpecStringify == InitStringify /\ [][NextStringify]_vars

-----------------------------------------------------------------------------
(* Programs that read one object whose key is written without quotes *)

\* the number of characters an unquoted key holds at most
MaxKey == 2

KeyChars == {C("a"), C("Z"), C("_"), C("$"), C("1"), C("-"), C(" ")}

\* the keys: whitespace does not come first, skip_spaces() would take it
BareKeys ==
  {k \in UNION {[1..n -> KeyChars] : n \in 0..MaxKey} :
     k = <<>> \/ k[1] # C(" ")}

\* what follows the key
KeyEnds ==
  {Txt(<<":","1","}">>), Txt(<<":","1","2","3",",","}">>), Txt(<<"}">>),
   <<>>}

InitKey ==
  /\ segments \in {<<Txt(<<"{">>), k, e>> : k \in BareKeys, e \in KeyEnds}
  /\ input = Concat(segments)
  /\ vals = <<>>
  /\ InitContext

KeyManipulators ==
  {[name |-> "unquoted_key", arg |-> Allow(b),
    manip |-> rule_unquoted_key(b)] : b \in BOOLEAN}
  \cup {[name |-> "trailing_comma", arg |-> 1,
         manip |-> rule_trailing_comma(TRUE)]}

NextKey ==
  \/ \E m \in KeyManipulators : ApplyManipulator(m)
  \/ ContextParse
  \/ \E fin \in BOOLEAN : CallParse(fin)
  \/ \E fin \in BOOLEAN : CallParse5(fin)

SpecKey == InitKey /\ [][NextKey]_vars

-----------------------------------------------------------------------------
(* Programs that read one quoted string *)

\* the number of pieces a string body is composed of at most
MaxPieces == 2

BackSlash == C("\\")

\* the characters that may follow a backslash
EscapeChars ==
  {C("'"), C("\""), C("\\"), C("/"), C("b"), C("f"), C("n"), C("r"), C("t")}

\* a plain character, the escapes, an escape that does not exist, a raw
\* line feed and the two quotes
StringPieces ==
  {Txt(<<"a">>), Txt(<<"\n">>), Txt(<<"'">>), Txt(<<"\"">>),
   Txt(<<"\\", "x">>)}
  \cup {<<BackSlash, c>> : c \in EscapeChars}

\* \u escapes: with four hex digits in either case, and with fewer
UnicodePieces ==
  {Txt(<<"\\","u","0","0","4","1">>), Txt(<<"\\","u","0","0","7","F">>),
   Txt(<<"\\","u","0","0","8","0">>), Txt(<<"\\","u","0","0","e","9">>),
   Txt(<<"\\","u","0","7","f","F">>), Txt(<<"\\","u","0","8","0","0">>),
   Txt(<<"\\","u","2","0","a","C">>), Txt(<<"\\","u","D","8","3","d">>),
   Txt(<<"\\","u","d","E","0","0">>), Txt(<<"\\","u","f","F","F","f">>),
   Txt(<<"\\","u","0","0","0","0">>), Txt(<<"\\","u","1","2">>),
   Txt(<<"\\","u","1","2","g","4">>), Txt(<<"\\","u">>),
   Txt(<<"\\","u","0","0","4">>)}

Quotes == {Txt(<<"\"">>), Txt(<<"'">>)}

\* the opening quote, the pieces of the body, and the closing quote or
\* nothing
StringSegments ==
  {<<q>> \o body \o <<e>> :
     q \in Quotes, e \in Quotes \cup {<<>>},
     body \in UNION {[1..n -> StringPieces] : n \in 0..MaxPieces}}
  \cup
  {<<q>> \o body \o <<q>> :
     q \in Quotes,
     body \in {<<u>> : u \in UnicodePieces}
              \cup {<<Txt(<<"a">>), u>> : u \in UnicodePieces}
              \cup {<<u, Txt(<<"a">>)>> : u \in UnicodePieces}}

InitString ==
  /\ segments \in StringSegments
  /\ input = Concat(segments)
  /\ vals = <<>>
  /\ InitContext

StringManipulators ==
  {[name |-> "single_quote", arg |-> Allow(b),
    manip |-> rule_single_quote(b)] : b \in BOOLEAN}

NextString ==
  \/ \E m \in StringManipulators : ApplyManipulator(m)
  \/ ContextParse
  \/ \E fin \in BOOLEAN : CallParse(fin)
  \/ \E fin \in BOOLEAN : CallParse5(fin)

SpecString == InitString /\ [][NextString]_vars

-----------------------------------------------------------------------------
(* Programs that read one number among whitespace and comments *)

\* the number of pieces a commented text is composed of at most
MaxGaps == 3

\* whitespace, line comments with and without their line end, block
\* comments closed and left open, and the number
CommentPieces ==
  {Txt(<<" ">>), Txt(<<"\n">>), Txt(<<"1">>),
   Txt(<<"/","/","x","\n">>), Txt(<<"/","/","x">>),
   Txt(<<"/","*","x","*","/">>), Txt(<<"/","*","*","/">>),
   Txt(<<"/","*","*","*","/">>), Txt(<<"/","*","x">>),
   Txt(<<"/","*","/">>)}

InitComment ==
  /\ segments \in UNION {[1..n -> CommentPieces] : n \in 1..MaxGaps}
  /\ input = Concat(segments)
  /\ vals = <<>>
  /\ InitContext

CommentManipulators ==
  UNION {{[name |-> "single_line_comment", arg |-> Allow(b),
           manip |-> rule_single_line_comment(b)],
          [name |-> "multi_line_comment", arg |-> Allow(b),
           manip |-> rule_multi_line_comment(b)]} : b \in BOOLEAN}

NextComment ==
  \/ \E m \in CommentManipulators : ApplyManipulator(m)
  \/ ContextParse
  \/ \E fin \in BOOLEAN : CallParse(fin)
  \/ \E fin \in BOOLEAN : CallParse5(fin)

SpecComment == InitComment /\ [][NextComment]_vars

-----------------------------------------------------------------------------
(* Programs that read one number, alone or as the element of a container *)

\* the number of digits a short integer part holds at most
MaxDigits == 3

\* the integer parts: short ones over 0, 1 and 7, and long ones around 2^32
\* and 2^64
IntParts ==
  UNION {[1..n -> {C("0"), C("1"), C("7")}] : n \in 0..MaxDigits}
  \cup
  {Txt(<<"4","2","9","4","9","6","7","2","9","6">>),
   Txt(<<"1","8","4","4","6","7","4","4","0","7","3","7","0","9","5","5",
         "1","6","1","5">>),
   Txt(<<"1","8","4","4","6","7","4","4","0","7","3","7","0","9","5","5",
         "1","6","1","6">>),
   Txt(<<"1","8","4","4","6","7","4","4","0","7","3","7","0","9","5","5",
         "1","6","1","7">>),
   Txt(<<"9","9","9","9","9","9","9","9","9","9","9","9","9","9","9","9",
         "9","9","9","9">>),
   Txt(<<"1","8","4","4","6","7","4","4","0","7","3","7","0","9","5","5",
         "1","6","1","6","0">>)}

Signs == {<<>>, Txt(<<"-">>), Txt(<<"+">>)}
FracParts == {<<>>, Txt(<<".">>), Txt(<<".","5">>)}
ExpParts == {<<>>, Txt(<<"e","1">>)}

\* what stands around the number: nothing, an array, an object entry
Wrappers ==
  {<<<<>>, <<>>>>, <<Txt(<<"[">>), Txt(<<"]">>)>>,
   <<Txt(<<"{","\"","a","\"",":">>), Txt(<<"}">>)>>}

InitNumber ==
  /\ segments \in {<<w[1], sg, ip, fp, ep, w[2]>> :
                     w \in Wrappers, sg \in Signs, ip \in IntParts,
                     fp \in FracParts, ep \in ExpParts}
  /\ input = Concat(segments)
  /\ vals = <<>>
  /\ InitContext

NumberManipulators ==
  {[name |-> "explicit_plus_sign", arg |-> 1,
    manip |-> rule_explicit_plus_sign(TRUE)],
   [name |-> "leading_decimal_point", arg |-> 1,
    manip |-> rule_leading_decimal_point(TRUE)],
   [name |-> "trailing_decimal_point", arg |-> 1,
    manip |-> rule_trailing_decimal_point(TRUE)]}

NextNumber ==
  \/ \E m \in NumberManipulators : ApplyManipulator(m)
  \/ ContextParse
  \/ \E fin \in BOOLEAN : CallParse(fin)
  \/ \E fin \in BOOLEAN : CallParse5(fin)

SpecNumber == InitNumber /\ [][NextNumber]_vars

-----------------------------------------------------------------------------
(* Programs that read one container whose last element a comma follows *)

\* the number of pieces that stand between the comma and the bracket at most
MaxBlank == 2

\* containers up to their last element, each with the value it denotes and
\* its closing bracket
TrailingOpens ==
  {[text  |-> Txt(<<"[","1">>), close |-> Txt(<<"]">>),
    value |-> array(<<NumberValue(Finite(FALSE, 1, 0))>>)],
   [text  |-> Txt(<<"[","1",",","\"","x","\"">>), close |-> Txt(<<"]">>),
    value |-> array(<<NumberValue(Finite(FALSE, 1, 0)),
                      StringValue(Txt(<<"x">>))>>)],
   [text  |-> Txt(<<"{","\"","a","\"",":","1">>), close |-> Txt(<<"}">>),
    value |-> object(Txt(<<"a">>) :> NumberValue(Finite(FALSE, 1, 0)))],
   [text  |-> Txt(<<"{","a",":","1">>), close |-> Txt(<<"}">>),
    value |-> object(Txt(<<"a">>) :> NumberValue(Finite(FALSE, 1, 0)))]}

\* whitespace and comments
BlankPieces ==
  {Txt(<<" ">>), Txt(<<"\n">>), Txt(<<"/","*","x","*","/">>),
   Txt(<<"/","/","x","\n">>)}

\* the container up to its last element, the comma, the pieces after it and
\* the closing bracket
InitTrailing ==
  /\ segments \in {<<o.text, Txt(<<",">>)>> \o gap \o <<o.close>> :
                     o \in TrailingOpens,
                     gap \in UNION {[1..n -> BlankPieces] : n \in 0..MaxBlank}}
  /\ input = Concat(segments)
  /\ vals = <<>>
  /\ InitContext

TrailingManipulators ==
  {[name |-> "trailing_comma", arg |-> Allow(b),
    manip |-> rule_trailing_comma(b)] : b \in BOOLEAN}
  \cup {[name |-> "unquoted_key", arg |-> 1,
         manip |-> rule_unquoted_key(TRUE)],
        [name |-> "comments", arg |-> 1, manip |-> rule_comments(TRUE)]}

NextTrailing ==
  \/ \E m \in TrailingManipulators : ApplyManipulator(m)
  \/ ContextParse
  \/ \E fin \in BOOLEAN : CallParse(fin)
  \/ \E fin \in BOOLEAN : CallParse5(fin)

SpecTrailing == InitTrailing /\ [][NextTrailing]_vars

-----------------------------------------------------------------------------
(* Programs that copy-assign to a value object from itself or from one of
   its own elements. operator=(const value& src) calls release(src.type)
   first and reads src.content afterwards: when src is *this or lives
   inside the payload of *this, that payload has been destroyed by the
   time it is read. *)

\* a payload of type t as the default constructor of its class leaves it
empty_content(t) ==
  CASE t = TYPE_BOOLEAN -> [type |-> t, boolean |-> FALSE]
    [] t = TYPE_NUMBER  -> [type |-> t, number |-> Finite(FALSE, 0, 0)]
    [] t = TYPE_STRING  -> [type |-> t, string |-> <<>>]
    [] t = TYPE_ARRAY   -> [type |-> t, array |-> <<>>]
    [] t = TYPE_OBJECT  -> [type |-> t, object |-> <<>>]
    [] OTHER            -> [type |-> t]

\* the members of *this that own no storage and have a trivial destructor
TrivialTypes == {TYPE_NULL, TYPE_BOOLEAN, TYPE_NUMBER}

\* the objects x = ... may name that alias x: x itself and the elements
\* x.as_array()[i] and x.as_object()[k]
Aliases(v) ==
  {[self |-> TRUE, value |-> v]}
    \cup (IF v.type = TYPE_ARRAY
            THEN {[self |-> FALSE, value |-> v.array[i]] : i \in DOMAIN v.array}
            ELSE {})
    \cup (IF v.type = TYPE_OBJECT
            THEN {[self |-> FALSE, value |-> v.object[k]] :
                    k \in DOMAIN v.object}
            ELSE {})

\* operator=(const value& src) with src an alias of *this: the results of
\* the switch on the new tag t. The copy constructors read a payload that
\* release() has destroyed, unless src is *this and the payload is trivial.
\* The read is undefined: the bytes may still be whole, the elements may
\* read as destroyed, the payload may read as empty, or the copy aborts.
assign_alias(v, a) ==
  IF a.self /\ a.value.type \in TrivialTypes
    THEN {[aborted |-> FALSE,
           value |-> copy_content(release(v, a.value.type).type, a.value)]}
  ELSE {[aborted |-> FALSE,
         value |-> copy_content(release(v, a.value.type).type, a.value)],
        [aborted |-> FALSE,
         value |-> copy_content_flat(release(v, a.value.type).type, a.value)],
        [aborted |-> FALSE,
         value |-> empty_content(release(v, a.value.type).type)],
        [aborted |-> TRUE, value |-> NoObject]}

\* x = x;  x = x.as_array()[i];  x = x.as_object()[k];
AliasAssign(x) ==
  /\ Running /\ Exists(x)
  /\ \E a \in Aliases(vals[x]) : \E r \in assign_alias(vals[x], a) :
       /\ vals' = [vals EXCEPT ![x] = r.value]
       /\ call' = [op |-> "alias_assign",
                   arg |-> [name |-> x, self |-> a.self, src |-> a.value]]
       /\ outcome' = IF r.aborted THEN "aborted" ELSE "value"
  /\ ValueFrame

NextAlias ==
  \/ \E x \in Names : Construct(x)
  \/ \E x, y \in Names : CopyConstruct(x, y)
  \/ \E x \in Names : AssignNative(x)
  \/ \E x \in Names : AssignElement(x)
  \/ \E x \in Names : Destroy(x)
  \/ \E x \in Names : AliasAssign(x)

SpecAlias == InitValue /\ [][NextAlias]_vars

-----------------------------------------------------------------------------
(* Programs that parse a text cut short: every beginning of a few texts
   that between them enter each loop of the parser, so that each loop
   meets the end of the input at each of its reads *)

\* text is the whole text, needs the number of bytes up to and including
\* the byte that ends its value
Manuscripts ==
  {[text |-> Txt(<<"{","a",":","[","-","1",".","5","e","+","1",",",
                   "\"","x","\\","n","\\","u","0","0","4","1","\"","]",",",
                   "'","b","'",":","7",",","}">>),
    needs |-> 32],
   [text |-> Txt(<<"/","*","c","*","/"," ","["," ","1"," ",",","/","/","d",
                   "\n","n","u","l","l"," ","]"," ">>),
    needs |-> 21],
   [text |-> Txt(<<"\"","a","\\","\r","\n","b","\"">>),
    needs |-> 7]}

Beginning(text, n) == SubSeq(text, 1, n)

InitEof ==
  /\ \E m \in Manuscripts : \E n \in 0..Len(m.text) :
       segments = <<Beginning(m.text, n)>>
  /\ input = Concat(segments)
  /\ vals = <<>>
  /\ InitContext

NextEof ==
  \/ \E m \in ParseManipulators : ApplyManipulator(m)
  \/ ContextParse
  \/ \E fin \in BOOLEAN : CallParse(fin)
  \/ \E fin \in BOOLEAN : CallParse5(fin)

SpecEof == InitEof /\ [][NextEof]_vars

-----------------------------------------------------------------------------
(* Properties.  What follows reads texts on its own, without the parser.   *)

Last(seq) == seq[Len(seq)]

ParseOps == {"parse", "parse5", "context_parse", "reparse"}

\* the last operation was a parse call that began at the start of the medium
ParsedWhole == call.op \in ParseOps /\ call.arg.pos = 0

WhiteSpace == {C(" "), C("\t"), C("\n"), C("\r")}

MinOf(S) == CHOOSE m \in S : \A n \in S : m <= n

\* the index of the first CR or LF of text at or after i, or Len(text) + 1
LineEnd(text, i) ==
  MinOf({j \in i..Len(text) : text[j] \in {C("\n"), C("\r")}}
        \cup {Len(text) + 1})

\* the index of the slash of the first "*/" of text at or after i, or 0
BlockEnd(text, i) ==
  MinOf({j + 1 : j \in {q \in i..(Len(text) - 1) :
                          text[q] = C("*") /\ text[q + 1] = C("/")}}
        \cup {Len(text) + 1}) % (Len(text) + 1)

RECURSIVE BlankFrom(_, _, _)
\* text holds, from index i on, nothing but whitespace and the comments that
\* the flags fl enable
BlankFrom(text, i, fl) ==
  IF i > Len(text) THEN TRUE
  ELSE IF text[i] \in WhiteSpace THEN BlankFrom(text, i + 1, fl)
  ELSE IF text[i] # C("/") \/ i = Len(text) THEN FALSE
  ELSE IF text[i + 1] = C("/") /\ has_flag(fl, single_line_comment)
    THEN BlankFrom(text, LineEnd(text, i + 2), fl)
  ELSE IF text[i + 1] = C("*") /\ has_flag(fl, multi_line_comment)
    THEN /\ BlockEnd(text, i + 2) # 0
         /\ BlankFrom(text, BlockEnd(text, i + 2) + 1, fl)
  ELSE FALSE

RECURSIVE Outside(_, _, _)
\* the indices of text, from i on, that lie outside its double-quoted strings
Outside(text, i, inside) ==
  IF i > Len(text) THEN {}
  ELSE IF inside
    THEN IF text[i] = C("\\") THEN Outside(text, i + 2, TRUE)
         ELSE Outside(text, i + 1, text[i] # C("\""))
  ELSE IF text[i] = C("\"") THEN Outside(text, i + 1, TRUE)
  ELSE {i} \cup Outside(text, i + 1, FALSE)

At(text, i) == IF i \in 1..Len(text) THEN text[i] ELSE EOF

\* the first index after i, and the last before i, that holds no whitespace
NextInk(text, i) ==
  MinOf({j \in (i + 1)..Len(text) : text[j] \notin WhiteSpace}
        \cup {Len(text) + 1})
PrevInk(text, i) ==
  MaxOf({j \in 1..(i - 1) : text[j] \notin WhiteSpace})

IdentifierChars ==
  (C("a")..C("z")) \cup (C("A")..C("Z")) \cup (C("0")..C("9"))
  \cup {C("_"), C("$")}

\* text uses, at index i, a feature that JSON5 adds to JSON: a comment, a
\* single-quoted string, a hexadecimal number, NaN or Infinity, a trailing
\* comma, an unquoted key
FeatureAt(text, i) ==
  \/ text[i] = C("/") /\ At(text, i + 1) \in {C("/"), C("*")}
  \/ text[i] = C("'")
  \/ text[i] = C("0") /\ At(text, i + 1) = C("x")
  \/ text[i] = C("N") /\ At(text, i + 1) = C("a") /\ At(text, i + 2) = C("N")
  \/ text[i] \in {C("I"), C("i")} /\ At(text, i + 1) = C("n")
       /\ At(text, i + 2) = C("f")
  \/ text[i] = C(",") /\ At(text, NextInk(text, i)) \in {C("]"), C("}")}
  \/ text[i] = C(":") /\ At(text, PrevInk(text, i)) \in IdentifierChars

UsesJson5Feature(text) == \E i \in Outside(text, 1, FALSE) : FeatureAt(text, i)

-----------------------------------------------------------------------------
(* C1 *)

\* C1 (round trip): whenever a value the parser produced has been written
\* out under the rules of the context and the text written has been parsed
\* again under the same rules, the second parse succeeded, read the whole
\* text and gave a value equal to the first.
C1_RoundTrip ==
  call.op = "reparse" =>
    /\ outcome = "value"
    /\ Last(returned) = returned[Len(returned) - 1]

-----------------------------------------------------------------------------
(* C2 *)

\* C2 as stated: under the ecma404 preset, parse() of a medium whose text
\* uses a JSON5 feature never returns a value, whatever the finished argument.
C2_Ecma404RejectsAlways ==
  (call.op = "parse" /\ call.arg.pos = 0 /\ UsesJson5Feature(input))
    => outcome = "syntax_error"

\* C2, amended: under the ecma404 preset, parse() called with finished = true
\* on a text that uses a trailing comma, a comment, an unquoted key, a
\* single-quoted string, a hexadecimal number or NaN / Infinity ends with
\* syntax_error and returns no value.
C2_Ecma404RejectsFinished ==
  (call.op = "parse" /\ call.arg.pos = 0 /\ call.arg.finished
     /\ UsesJson5Feature(input))
    => (outcome = "syntax_error" /\ returned = <<>>)

C2_Witness ==
  /\ call.op = "parse" /\ call.arg.pos = 0 /\ call.arg.finished
  /\ input = Txt(<<"[","1",",","1",",","]">>)
  /\ UsesJson5Feature(input)
  /\ outcome = "syntax_error"

-----------------------------------------------------------------------------
(* C3 *)

\* well-formed JSON5 texts, each using one feature that JSON5 adds to JSON
Json5Samples ==
  {Txt(<<"[","1",",","1",",","]">>),
   Txt(<<"{","\"","a","\"",":","1",",","}">>),
   Txt(<<"/","/","x","\n","1">>),
   Txt(<<"/","*","x","*","/","1">>),
   Txt(<<"{","a",":","1","}">>),
   Txt(<<"'","a","'">>),
   Txt(<<"0","x","1","F">>),
   Txt(<<"N","a","N">>),
   Txt(<<"I","n","f","i","n","i","t","y">>)}

\* C3: under the json5 preset, parse5() returns a value for every text that
\* uses a trailing comma, a comment, an unquoted key, a single-quoted string,
\* a hexadecimal number, NaN or Infinity.
C3_Json5Accepts ==
  (call.op = "parse5" /\ call.arg.pos = 0 /\ input \in Json5Samples)
    => outcome = "value"

-----------------------------------------------------------------------------
(* C4 *)

\* C4: a parse of the text -0x0a9f gives the number -2719 when the
\* hexadecimal flag of the context is on, and (the whole text being asked
\* for) syntax_error when it is off.
C4_Hexadecimal ==
  (ParsedWhole /\ input = Txt(<<"-","0","x","0","a","9","f">>))
    => IF has_flag(call.arg.flags, hexadecimal)
         THEN /\ outcome = "value"
              /\ Last(returned) = NumberValue(Finite(TRUE, 2719, 0))
         ELSE call.arg.finished => outcome = "syntax_error"

-----------------------------------------------------------------------------
(* C5 *)

\* how the same call would have ended in streaming mode
Streamed ==
  parse_finished(input, [pos |-> 0, fail |-> FALSE, eofs |-> 0], call.arg.flags,
                 NullValue, FALSE)

\* C5: parse() / parse5() called with finished = true returns a value exactly
\* when the text holds one value and, after it, nothing but whitespace and
\* enabled comments; any other character after the value gives syntax_error.
C5_FinishedMode ==
  (call.op \in {"parse", "parse5"} /\ call.arg.pos = 0 /\ call.arg.finished)
    => (outcome = "value" <=>
          /\ ~Threw(Streamed)
          /\ BlankFrom(input, Streamed.s.pos + 1, call.arg.flags))

-----------------------------------------------------------------------------
(* C6 *)

\* C6: when finished() has been applied to the context, context >> v returns
\* a value only if nothing but whitespace and enabled comments follows it.
C6_FinishedManipulator ==
  (call.op = "context_parse" /\ has_flag(call.arg.flags, finished)
     /\ outcome = "value")
    => BlankFrom(input, in_pos + 1, call.arg.flags)

-----------------------------------------------------------------------------
(* C8 *)

\* C8: after a syntax_error no value has been returned, and the value handed
\* to context >> v holds what it held before the first parse or a value that
\* an earlier parse completed, never a partly parsed one.
C8_NoPartialValue ==
  (call.op \in ParseOps /\ outcome = "syntax_error")
    => dest \in {NullValue} \cup {returned[i] : i \in DOMAIN returned}

-----------------------------------------------------------------------------
(* C7 *)

\* the value that the text of a stream item denotes
Meaning(text) == (CHOOSE it \in StreamItems : it.text = text).value

\* the number of bytes of the first n values and the separators between them
EndOfValue(n) == Len(Concat(SubSeq(segments, 1, 2 * n - 1)))

\* C7: on a medium holding k whitespace-separated values, the successive
\* streaming parses return the first, the second, ... the k-th value, each
\* leaving the read position right behind the text of its value, and only
\* the parse after the k-th fails.
C7_Streaming ==
  /\ Len(returned) <= Len(segments) \div 2
  /\ \A j \in 1..Len(returned) : returned[j] = Meaning(segments[2 * j - 1])
  /\ outcome = "value" => in_pos = EndOfValue(Len(returned))
  /\ outcome = "syntax_error" => Len(returned) = Len(segments) \div 2

C7_Witness ==
  /\ Len(segments) = 4
  /\ segments[1] = Txt(<<"1","2">>)
  /\ segments[3] = Txt(<<"[","1",","," ","[","]","]">>)
  /\ Len(returned) = 2
  /\ outcome = "value"
  /\ in_pos = EndOfValue(2)
  /\ in_pos < Len(input)

-----------------------------------------------------------------------------
(* C9 *)

Holds(v, t) ==
  CASE t = TYPE_NULL    -> is_null(v)
    [] t = TYPE_BOOLEAN -> is_boolean(v)
    [] t = TYPE_NUMBER  -> is_number(v)
    [] t = TYPE_STRING  -> is_string(v)
    [] t = TYPE_ARRAY   -> is_array(v)
    [] t = TYPE_OBJECT  -> is_object(v)

\* the members of content that are alive in v
LiveMembers(v) == DOMAIN v \ {"type"}

-----------------------------------------------------------------------------
(* C10 *)

\* the bit of enum flags that each single-axis manipulator is about
AxisOf ==
  [single_line_comment |-> 0, multi_line_comment |-> 1,
   explicit_plus_sign |-> 2, leading_decimal_point |-> 3,
   trailing_decimal_point |-> 4, infinity_number |-> 5, not_a_number |-> 6,
   hexadecimal |-> 7, single_quote |-> 8, multi_line_string |-> 9,
   trailing_comma |-> 10, unquoted_key |-> 11,
   lf_newline |-> 14, crlf_newline |-> 14, finished |-> 15]

IndentManipulators == {"no_indent", "tab_indent", "space_indent"}

\* C10: a step that applies a single-axis manipulator changes no flag bit
\* but its own and not the indent; a step that applies no_indent, tab_indent
\* or space_indent changes no flag bit.
C10_NonInterference ==
  [][(call'.op = "manipulator" /\ applied' = applied + 1) =>
       /\ call'.arg.name \in DOMAIN AxisOf =>
            /\ flags' \ {AxisOf[call'.arg.name]}
                 = flags \ {AxisOf[call'.arg.name]}
            /\ indent' = indent
       /\ call'.arg.name \in IndentManipulators => flags' = flags]_vars

C10_Witness ==
  /\ applied = 2
  /\ call.op = "manipulator" /\ call.arg.name = "hexadecimal"
  /\ call.arg.arg = 0
  /\ flags = json5_rules \ hexadecimal

-----------------------------------------------------------------------------
(* C11 *)

\* the manipulator that the last step applied
Applied(c) ==
  (CHOOSE m \in Manipulators : m.name = c.arg.name /\ m.arg = c.arg.arg).manip

\* C11: each application of a manipulator clears its clear-mask bits, then
\* sets its set-mask bits (a bit in both masks ends up set) and replaces the
\* indent only if the manipulator carries one; so the manipulator applied
\* last decides every bit it touches and the indent it carries, whatever was
\* applied before it, and applying it a second time changes nothing.
C11_Fold ==
  [][(call'.op = "manipulator" /\ applied' = applied + 1) =>
       /\ flags' = (flags \ Applied(call').flags_clear)
                      \cup Applied(call').flags_set
       /\ Applied(call').flags_set \subseteq flags'
       /\ (Applied(call').flags_clear \ Applied(call').flags_set)
             \cap flags' = {}
       /\ indent' = IF Applied(call').indent_set
                      THEN Applied(call').indent ELSE indent
       /\ (call.op = "manipulator" /\ call.arg = call'.arg)
             => (flags' = flags /\ indent' = indent)]_vars

C11_Witness ==
  /\ applied = 2
  /\ call.op = "manipulator" /\ call.arg.name = "json5"
  /\ flags = json5_rules \cup finished
  /\ indent = 0

-----------------------------------------------------------------------------
(* C12 *)

GrammarToggles == 0..11

\* C12: ecma404() leaves the twelve grammar toggles of a context off and
\* json5() leaves them on, both keeping the newline style, the finished bit
\* and the indent; parse() runs with the twelve toggles off and parse5()
\* with the twelve on, whatever the context of the program holds.
C12_Presets ==
  [][
      /\ (call'.op = "manipulator" /\ applied' = applied + 1
             /\ call'.arg.name \in {"ecma404", "json5"})
        => (/\ flags' \cap GrammarToggles
                 = IF call'.arg.name = "json5" THEN GrammarToggles ELSE {}
            /\ flags' \ GrammarToggles = flags \ GrammarToggles
            /\ indent' = indent)
      /\ call'.op = "parse"
        => (/\ call'.arg.flags \cap GrammarToggles = {}
            /\ (call'.arg.pos = 0 /\ input \in PresetTexts \ {Txt(<<"1">>)})
                  => outcome' = "syntax_error")
      /\ call'.op = "parse5"
        => (/\ call'.arg.flags \cap GrammarToggles = GrammarToggles
            /\ call'.arg.pos = 0 => outcome' = "value")]_vars

C12_Witness ==
  /\ applied = 2
  /\ call.op = "manipulator" /\ call.arg.name = "ecma404"
  /\ flags = crlf_newline
  /\ indent = 0

-----------------------------------------------------------------------------
(* C13 *)

\* the container that the segments of the medium spell
ItemCount == (Len(segments) - 3) \div 3
IsObject == segments[1] = Txt(<<"{">>)
ItemAt(j) == CHOOSE it \in ContainerItems : it.text = segments[3 * j + 1]
KeyAt(j) == CHOOSE k \in Keys : KeyText(k) = segments[3 * j]
KeysUsed == {KeyAt(j) : j \in 1..ItemCount}
DistinctKeys == Cardinality(KeysUsed) = ItemCount

\* a comma stands between every two consecutive elements
AllCommas == \A j \in 2..ItemCount : segments[3 * j - 1] = Txt(<<",">>)

\* a comma stands right before a closing bracket, in the container or in
\* one of its elements
HasTrailingComma ==
  \/ segments[3 * ItemCount + 2] # <<>>
  \/ \E j \in 1..ItemCount : ItemAt(j).trailing

\* the value denoted, the last of several equal keys giving the entry
Denoted ==
  IF IsObject
    THEN object([k \in KeysUsed |->
                   ItemAt(MaxOf({j \in 1..ItemCount : KeyAt(j) = k})).value])
    ELSE array([j \in 1..ItemCount |-> ItemAt(j).value])

\* C13: a parse of an array or object text returns a value exactly when a
\* comma stands between every two elements and, if a comma stands right
\* before a closing bracket, trailing_comma is on; that comma then adds no
\* element, at either nesting level; with trailing_comma off the text gives
\* a syntax_error that names the closing bracket.
C13_TrailingComma ==
  ParsedWhole =>
    /\ outcome = "value" <=>
          /\ AllCommas
          /\ HasTrailingComma => has_flag(call.arg.flags, trailing_comma)
    /\ (outcome = "value" /\ (IsObject => DistinctKeys))
          => Last(returned) = Denoted
    /\ (AllCommas /\ HasTrailingComma
           /\ ~has_flag(call.arg.flags, trailing_comma))
          => (outcome = "syntax_error" /\ error.ch \in {C("]"), C("}")})
    /\ ~AllCommas => outcome = "syntax_error"

C13_Witness ==
  /\ ParsedWhole
  /\ input = Txt(<<"[","[","1",",","2",",","]",",","]">>)
  /\ has_flag(call.arg.flags, trailing_comma)
  /\ outcome = "value"
  /\ Last(returned) = array(<<array(<<NumberValue(Finite(FALSE, 1, 0)),
                                      NumberValue(Finite(FALSE, 2, 0))>>)>>)

-----------------------------------------------------------------------------
(* C14 *)

\* C14: a parse of an object text in which a key occurs more than once
\* succeeds as it would with distinct keys, and the object returned has one
\* entry for that key, holding the value of the last occurrence.
C14_DuplicateKeys ==
  (ParsedWhole /\ IsObject /\ ~DistinctKeys) =>
    /\ (AllCommas
          /\ (HasTrailingComma => has_flag(call.arg.flags, trailing_comma)))
         => outcome = "value"
    /\ outcome = "value" =>
         /\ Last(returned).type = TYPE_OBJECT
         /\ DOMAIN Last(returned).object = KeysUsed
         /\ \A k \in KeysUsed :
              Last(returned).object[k]
                = ItemAt(MaxOf({j \in 1..ItemCount : KeyAt(j) = k})).value

C14_Witness ==
  /\ ParsedWhole
  /\ input = Txt(<<"{","\"","a","\"",":","[","]",",",
                   "\"","a","\"",":","2","}">>)
  /\ outcome = "value"
  /\ Last(returned) = object(Txt(<<"a">>) :> NumberValue(Finite(FALSE, 2, 0)))

-----------------------------------------------------------------------------
(* C15 *)

RECURSIVE SumSeq(_)
SumSeq(ns) == IF ns = <<>> THEN 0 ELSE Head(ns) + SumSeq(Tail(ns))

RECURSIVE CountEmpty(_, _)
\* the number of empty containers of type t in v, v itself included
CountEmpty(v, t) ==
  IF v.type = TYPE_ARRAY
    THEN IF v.array = <<>> THEN (IF t = TYPE_ARRAY THEN 1 ELSE 0)
         ELSE SumSeq([i \in 1..Len(v.array) |-> CountEmpty(v.array[i], t)])
  ELSE IF v.type = TYPE_OBJECT
    THEN IF DOMAIN v.object = {} THEN (IF t = TYPE_OBJECT THEN 1 ELSE 0)
         ELSE LET keys == SortedKeys(DOMAIN v.object)
              IN  SumSeq([i \in 1..Len(keys) |->
                           CountEmpty(v.object[keys[i]], t)])
  ELSE 0

\* the number of places of text where the two bytes of pair stand
Occurrences(text, pair) ==
  Cardinality({i \in 1..(Len(text) - 1) :
                 text[i] = pair[1] /\ text[i + 1] = pair[2]})

\* C15: in the text written for a value, every empty array is the two bytes
\* [] and every empty object the two bytes {}, at any depth and whatever the
\* indent and the newline of the context (the strings of the values written
\* hold no brackets).
C15_EmptyContainers ==
  call.op = "stringify_value" =>
    /\ Occurrences(output, Txt(<<"[","]">>)) = CountEmpty(dest, TYPE_ARRAY)
    /\ Occurrences(output, Txt(<<"{","}">>)) = CountEmpty(dest, TYPE_OBJECT)
    /\ (dest.type = TYPE_ARRAY /\ CountEmpty(dest, TYPE_ARRAY) = 1
          /\ Len(dest.array) = 0) => output = Txt(<<"[","]">>)
    /\ (dest.type = TYPE_OBJECT /\ CountEmpty(dest, TYPE_OBJECT) = 1
          /\ DOMAIN dest.object = {}) => output = Txt(<<"{","}">>)

C15_Witness ==
  /\ call.op = "stringify_value"
  /\ indent = 3 /\ has_flag(flags, crlf_newline)
  /\ dest.type = TYPE_ARRAY
  /\ CountEmpty(dest, TYPE_ARRAY) = 2 /\ CountEmpty(dest, TYPE_OBJECT) = 1
  /\ Occurrences(output, Txt(<<"[","]">>)) = 2

-----------------------------------------------------------------------------
(* C16 *)

\* k repetitions of unit, a run of one character
Prefix(unit, k) == [i \in 1..(k * Len(unit)) |-> unit[1]]

\* the lines ls of one element: its first line behind first, its last line
\* followed by a comma when a sibling follows
Decorate(ls, first, comma) ==
  [i \in 1..Len(ls) |->
     (IF i = 1 THEN first ELSE <<>>) \o ls[i]
     \o (IF i = Len(ls) /\ comma THEN Txt(<<",">>) ELSE <<>>)]

RECURSIVE Lines(_, _, _, _)
\* the lines of v written at nesting depth d, the first without its prefix
Lines(v, fl, d, unit) ==
  IF v.type = TYPE_ARRAY /\ v.array # <<>>
    THEN <<Txt(<<"[">>)>>
         \o Concat([i \in 1..Len(v.array) |->
                      Decorate(Lines(v.array[i], fl, d + 1, unit),
                               Prefix(unit, d + 1), i < Len(v.array))])
         \o <<Prefix(unit, d) \o Txt(<<"]">>)>>
  ELSE IF v.type = TYPE_OBJECT /\ DOMAIN v.object # {}
    THEN LET keys == SortedKeys(DOMAIN v.object)
         IN  <<Txt(<<"{">>)>>
             \o Concat([i \in 1..Len(keys) |->
                          Decorate(Lines(v.object[keys[i]], fl, d + 1, unit),
                                   Prefix(unit, d + 1)
                                     \o stringify_string(keys[i])
                                     \o Txt(<<":"," ">>),
                                   i < Len(keys))])
             \o <<Prefix(unit, d) \o Txt(<<"}">>)>>
  ELSE <<stringify_to(v, fl, 0, <<>>)>>

\* the lines ls, the newline token nl between them
JoinLines(ls, nl) ==
  Concat([i \in 1..Len(ls) |-> IF i = 1 THEN ls[i] ELSE nl \o ls[i]])

\* the indent unit and the newline token of the context
UnitOf(ind) ==
  IF ind > 0 THEN [i \in 1..ind |-> C(" ")] ELSE [i \in 1..(0 - ind) |-> C("\t")]
NewlineOf(fl) ==
  IF has_flag(fl, crlf_newline) THEN Txt(<<"\r","\n">>) ELSE Txt(<<"\n">>)

\* C16: with an indent set, each element of a non-empty array or object at
\* depth d stands on a line of its own behind d + 1 indent units, a comma
\* and the newline token of the context separate siblings, and the closing
\* bracket stands on a line of its own behind d units.
C16_Indented ==
  (call.op = "stringify_value" /\ indent # 0) =>
    output = JoinLines(Lines(dest, flags, 0, UnitOf(indent)), NewlineOf(flags))

C16_Witness ==
  /\ call.op = "stringify_value"
  /\ indent = 0 - 3 /\ ~has_flag(flags, crlf_newline)
  /\ dest = array(<<One, Two>>)
  /\ output = Txt(<<"[","\n","\t","\t","\t","1",",",
                    "\n","\t","\t","\t","2","\n","]">>)

-----------------------------------------------------------------------------
(* C17 *)

\* what a non-finite number is written as under the flags fl
NonFinite(n, fl) ==
  IF n.kind = "nan"
    THEN IF has_flag(fl, not_a_number) THEN Txt(<<"N","a","N">>)
         ELSE Txt(<<"n","u","l","l">>)
  ELSE IF ~has_flag(fl, infinity_number) THEN Txt(<<"n","u","l","l">>)
  ELSE IF n.neg THEN Txt(<<"-","i","n","f","i","n","i","t","y">>)
  ELSE Txt(<<"i","n","f","i","n","i","t","y">>)

\* C17: NaN is written as NaN when not_a_number is on and as null when it
\* is off, +infinity and -infinity as infinity and -infinity when
\* infinity_number is on and as null when it is off, each whatever the
\* other flags are.
C17_NonFinite ==
  call.op = "stringify_value" =>
    /\ (dest.type = TYPE_NUMBER /\ dest.number.kind # "finite")
         => output = NonFinite(dest.number, flags)
    /\ (dest.type = TYPE_ARRAY /\ Len(dest.array) = 3 /\ indent = 0
          /\ \A i \in 1..3 : dest.array[i].type = TYPE_NUMBER
          /\ dest.array[1].number.kind = "nan")
         => output = Txt(<<"[">>) \o NonFinite(dest.array[1].number, flags)
                     \o Txt(<<",">>) \o NonFinite(dest.array[2].number, flags)
                     \o Txt(<<",">>) \o NonFinite(dest.array[3].number, flags)
                     \o Txt(<<"]">>)

C17_Witness ==
  /\ call.op = "stringify_value"
  /\ flags = not_a_number
  /\ dest.type = TYPE_ARRAY
  /\ output = Txt(<<"[","N","a","N",",","n","u","l","l",",",
                    "n","u","l","l","]">>)

-----------------------------------------------------------------------------
(* C18 *)

\* C18: written right after tab_indent(n) or space_indent(n), a value is
\* laid out with a unit of n tabs or n spaces for each nesting level,
\* whatever n is, and with no indentation at all when n is 0.
C18_IndentWidth ==
  (call.op = "stringify_value"
     /\ call.arg.name \in {"tab_indent", "space_indent"}) =>
    IF call.arg.arg = 0
      THEN output = stringify_to(dest, flags, 0, <<>>)
      ELSE output
             = JoinLines(Lines(dest, flags, 0,
                               [i \in 1..call.arg.arg |->
                                  IF call.arg.name = "tab_indent"
                                    THEN C("\t") ELSE C(" ")]),
                         NewlineOf(flags))

-----------------------------------------------------------------------------
(* C19 *)

CopyOps == {"copy_construct", "copy_assign"}

\* the operations that write to the object they name
MutatingOps == {"construct", "assign", "assign_element", "copy_construct",
                "copy_assign", "destroy"}

-----------------------------------------------------------------------------
(* C20 *)

RECURSIVE FirstInk(_, _, _)
\* the first index of text, at or after i, that holds neither whitespace nor
\* a part of a comment that the flags fl enable, or Len(text) + 1
FirstInk(text, i, fl) ==
  IF i > Len(text) THEN Len(text) + 1
  ELSE IF text[i] \in WhiteSpace THEN FirstInk(text, i + 1, fl)
  ELSE IF text[i] # C("/") THEN i
  ELSE IF At(text, i + 1) = C("/") /\ has_flag(fl, single_line_comment)
    THEN FirstInk(text, LineEnd(text, i + 2), fl)
  ELSE IF At(text, i + 1) = C("*") /\ has_flag(fl, multi_line_comment)
    THEN IF BlockEnd(text, i + 2) = 0 THEN Len(text) + 1
         ELSE FirstInk(text, BlockEnd(text, i + 2) + 1, fl)
  ELSE i

\* the characters that select a production of [value]
DispatchChars ==
  {C("{"), C("["), C("\""), C("'"), C("n"), C("t"), C("f"), C("-"), C("+"),
   C("."), C("i"), C("N")} \cup (C("0")..C("9"))

\* C20: a parse call fails with syntax_error whenever the first character
\* of the text that is neither whitespace nor part of an enabled comment is
\* not one of { [ " ' n t f digit - + . i N; a slash that opens no enabled
\* comment is such a character and is never dropped.
C20_Dispatch ==
  (ParsedWhole
     /\ At(input, FirstInk(input, 1, call.arg.flags)) \notin DispatchChars)
    => outcome = "syntax_error"

\* the same statement for every first character but the slash
C20_DispatchButSlash ==
  (ParsedWhole
     /\ At(input, FirstInk(input, 1, call.arg.flags))
          \notin (DispatchChars \cup {C("/")}))
    => outcome = "syntax_error"

-----------------------------------------------------------------------------
(* C21 *)

Letters == (C("a")..C("z")) \cup (C("A")..C("Z"))

\* key is an identifier: a letter, _ or $, then letters, digits, _ or $
IsIdentifier(key) ==
  /\ key # <<>>
  /\ key[1] \in Letters \cup {C("_"), C("$")}
  /\ \A i \in 2..Len(key) : key[i] \in IdentifierChars

\* the medium holds an object with one unquoted key, a colon and a number
OneBareEntry == segments[3] # <<>> /\ segments[3][1] = C(":")

\* C21: with unquoted_key on, an object text with one unquoted key is
\* accepted exactly when the key is an identifier followed by the colon,
\* so that no empty key is accepted, and the object then holds one entry
\* under that key; with unquoted_key off the text gives a syntax_error in
\* context object-key that names the first character of the key.
C21_UnquotedKey ==
  (ParsedWhole /\ (segments[2] # <<>> \/ OneBareEntry)) =>
    IF has_flag(call.arg.flags, unquoted_key)
      THEN /\ outcome = "value" =>
                (OneBareEntry /\ IsIdentifier(segments[2]))
           /\ (OneBareEntry /\ IsIdentifier(segments[2])
                 /\ (Len(segments[3]) > 3
                       => has_flag(call.arg.flags, trailing_comma)))
                => (/\ outcome = "value"
                    /\ Last(returned).type = TYPE_OBJECT
                    /\ DOMAIN Last(returned).object = {segments[2]})
      ELSE (segments[2] # <<>>) =>
             /\ outcome = "syntax_error"
             /\ error = syntax_error(segments[2][1], "object-key")

\* the same statement for the keys that hold a character at least
C21_UnquotedKeyNotEmpty ==
  (segments[2] # <<>>) => C21_UnquotedKey

-----------------------------------------------------------------------------
(* C22 *)

\* the character a backslash escape stands for
Standard(c) ==
  CASE c = C("b") -> 8
    [] c = C("f") -> 12
    [] c = C("n") -> 10
    [] c = C("r") -> 13
    [] c = C("t") -> 9
    [] OTHER      -> c

RECURSIVE Scan(_, _, _, _)
\* reads the pieces from the i-th on as the body of a string opened by the
\* quote q: the string ends at the first piece that is that quote alone; a
\* raw character below 0x20 or the end of the pieces before it is an error
Scan(pieces, i, q, acc) ==
  IF i > Len(pieces) THEN [kind |-> "error", ch |-> EOF, bytes |-> acc]
  ELSE IF pieces[i] = <<>> THEN Scan(pieces, i + 1, q, acc)
  ELSE IF pieces[i] = <<q>> THEN [kind |-> "string", ch |-> q, bytes |-> acc]
  ELSE IF pieces[i][1] < 32
    THEN [kind |-> "error", ch |-> pieces[i][1], bytes |-> acc]
  ELSE IF pieces[i][1] # BackSlash
    THEN Scan(pieces, i + 1, q, Append(acc, pieces[i][1]))
  ELSE IF pieces[i][2] \in EscapeChars
    THEN Scan(pieces, i + 1, q, Append(acc, Standard(pieces[i][2])))
  ELSE [kind |-> "other", ch |-> pieces[i][2], bytes |-> acc]

\* the medium holds a quoted string made of plain characters and escapes
EscapedString ==
  /\ Len(segments) >= 2
  /\ segments[1] \in Quotes
  /\ \A i \in 2..(Len(segments) - 1) : segments[i] \in StringPieces

\* the quote that opens the string on the medium is one the flags allow
Opens(fl) == segments[1] = Txt(<<"\"">>) \/ has_flag(fl, single_quote)

Scanned == Scan(Tail(segments), 1, segments[1][1], <<>>)

\* C22: whatever the flags, a parse of a quoted string returns the string
\* of its characters, each backslash escape ' " \ / b f n r t giving its
\* standard character, up to the first unescaped occurrence of the opening
\* quote; a raw character below 0x20 or the end of input before that quote
\* gives a syntax_error that names it.
C22_Escapes ==
  (ParsedWhole /\ ~call.arg.finished /\ EscapedString
     /\ Opens(call.arg.flags)) =>
    /\ Scanned.kind = "string" =>
         (outcome = "value" /\ Last(returned) = StringValue(Scanned.bytes))
    /\ Scanned.kind = "error" =>
         (outcome = "syntax_error"
            /\ error = syntax_error(Scanned.ch, "string"))

\* the same statement for the strings that hold no \' when single_quote is
\* off
C22_EscapesButQuote ==
  (ParsedWhole
     /\ ~(has_flag(call.arg.flags, single_quote)
          \/ \A i \in 2..(Len(segments) - 1) :
               segments[i] # <<BackSlash, C("'")>>))
    \/ C22_Escapes

-----------------------------------------------------------------------------
(* C23 *)

RECURSIVE Skip(_, _, _)
\* walks text from index i over whitespace and the comments that the flags
\* fl enable: at is the index it stops at (Len(text) + 1 at the end), open
\* tells that it stopped inside a block comment that is never closed
Skip(text, i, fl) ==
  IF i > Len(text) THEN [at |-> Len(text) + 1, open |-> FALSE]
  ELSE IF text[i] \in WhiteSpace THEN Skip(text, i + 1, fl)
  ELSE IF text[i] # C("/") THEN [at |-> i, open |-> FALSE]
  ELSE IF At(text, i + 1) = C("/") /\ has_flag(fl, single_line_comment)
    THEN Skip(text, LineEnd(text, i + 2), fl)
  ELSE IF At(text, i + 1) = C("*") /\ has_flag(fl, multi_line_comment)
    THEN IF BlockEnd(text, i + 2) = 0
           THEN [at |-> Len(text) + 1, open |-> TRUE]
           ELSE Skip(text, BlockEnd(text, i + 2) + 1, fl)
  ELSE [at |-> i, open |-> FALSE]

\* the index after the digits that begin at index i of text
RECURSIVE DigitsEnd(_, _)
DigitsEnd(text, i) ==
  IF At(text, i) \in (C("0")..C("9")) THEN DigitsEnd(text, i + 1) ELSE i

Before == Skip(input, 1, call.arg.flags)
After == Skip(input, DigitsEnd(input, Before.at), call.arg.flags)
InComment == syntax_error(EOF, "comment")

\* C23: a parse of a number among whitespace and comments skips a //
\* comment exactly when single_line_comment is on and a /* */ comment
\* exactly when multi_line_comment is on, and goes on skipping after each:
\* it returns the number when only whitespace and enabled comments stand
\* before it (and, in finished mode, after it); a comment form whose toggle
\* is off gives a syntax_error, and an enabled block comment that is not
\* closed gives the syntax_error of end-of-input in context "comment".
C23_Comments ==
  ParsedWhole =>
    /\ Before.open => (outcome = "syntax_error" /\ error = InComment)
    /\ (~Before.open /\ At(input, Before.at) \in {C("/"), EOF})
         => (outcome = "syntax_error" /\ error.context = "value")
    /\ (At(input, Before.at) = C("1") /\ ~call.arg.finished)
         => (outcome = "value" /\ Last(returned).type = TYPE_NUMBER
               /\ in_pos = DigitsEnd(input, Before.at) - 1)
    /\ (At(input, Before.at) = C("1") /\ call.arg.finished)
         => /\ After.open => (outcome = "syntax_error" /\ error = InComment)
            /\ (~After.open /\ After.at <= Len(input))
                 => (outcome = "syntax_error" /\ error.context = "value")
            /\ (~After.open /\ After.at > Len(input))
                 => (outcome = "value" /\ Last(returned).type = TYPE_NUMBER)

\* only multi_line_comment is on: a block comment and a line end were
\* skipped before the number, and a line comment after it is rejected
C23_Witness ==
  /\ ParsedWhole
  /\ call.arg.flags = multi_line_comment
  /\ input = Txt(<<"/","*","x","*","/","\n","1">>)
  /\ outcome = "value"

-----------------------------------------------------------------------------
(* C24 *)

\* the parts of the number on the medium
SignPart == segments[2]
IntPart == segments[3]
FracPart == segments[4]
ExpPart == segments[5]
Wrapped == segments[1] # <<>>
WrapperName == IF segments[1] = Txt(<<"[">>) THEN "array" ELSE "object"
SignAllowed(fl) ==
  SignPart # Txt(<<"+">>) \/ has_flag(fl, explicit_plus_sign)

\* the integer part has several digits, the first of them 0
LeadingZero == Len(IntPart) >= 2 /\ IntPart[1] = C("0")

\* C24: the 0 that begins an integer part ends it, so that a number of
\* several digits that begins with 0 is never read as one number: alone,
\* the parse returns zero and stops after the 0, and fails in finished mode
\* with the syntax_error of the digit after the 0; as the element of an
\* array or an object entry that digit is rejected where a comma should be.
C24_LeadingZero ==
  (ParsedWhole /\ Len(segments) = 6 /\ LeadingZero
     /\ SignAllowed(call.arg.flags)) =>
    IF Wrapped
      THEN /\ outcome = "syntax_error"
           /\ error = syntax_error(IntPart[2], WrapperName)
      ELSE IF call.arg.finished
        THEN /\ outcome = "syntax_error"
             /\ error = syntax_error(IntPart[2], "value")
        ELSE /\ outcome = "value"
             /\ Last(returned)
                  = NumberValue(Finite(SignPart = Txt(<<"-">>), 0, 0))
             /\ in_pos = Len(SignPart) + 1

\* [01] has been rejected at the 1
C24_Witness ==
  /\ ParsedWhole
  /\ input = Txt(<<"[","0","1","]">>)
  /\ outcome = "syntax_error"
  /\ error = syntax_error(C("1"), "array")

-----------------------------------------------------------------------------
(* C25 *)

\* the value of a hexadecimal digit in either case, -1 for another character
HexVal(ch) ==
  IF ch \in 48..57 THEN ch - 48
  ELSE IF ch \in 65..70 THEN ch - 55
  ELSE IF ch \in 97..102 THEN ch - 87
  ELSE 0 - 1

\* the medium holds a quoted string with one \u escape
UnicodeString ==
  /\ Len(segments) \in 3..4
  /\ segments[1] \in Quotes
  /\ \E i \in 2..(Len(segments) - 1) : segments[i] \in UnicodePieces

\* the index of the backslash, and the four characters after the u
EscapeAt == CHOOSE i \in 1..Len(input) : input[i] = BackSlash
Hex(i) == At(input, EscapeAt + 1 + i)
FourHex == \A i \in 1..4 : HexVal(Hex(i)) >= 0
CodeUnit ==
  HexVal(Hex(1)) * 4096 + HexVal(Hex(2)) * 256 + HexVal(Hex(3)) * 16
    + HexVal(Hex(4))
FirstNonHex == Hex(MinOf({i \in 1..4 : HexVal(Hex(i)) < 0}))

\* the number of bytes the code unit c is to take
Utf8Length(c) == IF c < 128 THEN 1 ELSE IF c < 2048 THEN 2 ELSE 3

\* the code unit that a UTF-8 sequence of one to three bytes encodes, -1
\* for a sequence that is not well formed
Utf8Decode(b) ==
  IF Len(b) = 1 /\ b[1] \in 0..127 THEN b[1]
  ELSE IF Len(b) = 2 /\ b[1] \in 192..223 /\ b[2] \in 128..191
    THEN (b[1] - 192) * 64 + (b[2] - 128)
  ELSE IF Len(b) = 3 /\ b[1] \in 224..239 /\ b[2] \in 128..191
          /\ b[3] \in 128..191
    THEN (b[1] - 224) * 4096 + (b[2] - 128) * 64 + (b[3] - 128)
  ELSE 0 - 1

\* the characters of the string before the escape and after it
BeforeEscape == SubSeq(input, 2, EscapeAt - 1)
AfterEscape == SubSeq(input, EscapeAt + 6, Len(input) - 1)

\* C25: a parse of a quoted string with a \u escape followed by four hex
\* digits, in either case, puts in the place of the escape the UTF-8
\* encoding of the code unit the digits spell: one byte below 0x80, two
\* below 0x800, three from 0x800 on, the surrogates like any other code
\* unit; with fewer than four hex digits the parse gives the syntax_error
\* of the first character that is not a hex digit.
C25_UnicodeEscape ==
  (ParsedWhole /\ UnicodeString /\ Opens(call.arg.flags)) =>
    IF FourHex
      THEN /\ outcome = "value"
           /\ Last(returned).type = TYPE_STRING
           /\ LET str == Last(returned).string
                  n == Utf8Length(CodeUnit)
              IN  /\ Len(str) = Len(BeforeEscape) + n + Len(AfterEscape)
                  /\ SubSeq(str, 1, Len(BeforeEscape)) = BeforeEscape
                  /\ Utf8Decode(SubSeq(str, Len(BeforeEscape) + 1,
                                       Len(BeforeEscape) + n)) = CodeUnit
                  /\ SubSeq(str, Len(BeforeEscape) + n + 1, Len(str))
                       = AfterEscape
      ELSE /\ outcome = "syntax_error"
           /\ error = syntax_error(FirstNonHex, "string")

\* "a\u20aC" has been read as the character a and the three bytes of U+20AC
C25_Witness ==
  /\ ParsedWhole
  /\ input = Txt(<<"\"","a","\\","u","2","0","a","C","\"">>)
  /\ outcome = "value"
  /\ Last(returned) = StringValue(<<97, 226, 130, 172>>)

-----------------------------------------------------------------------------
(* C26 *)

\* v is a finite number, or a container whose one element is
HoldsFinite(v) ==
  \/ v.type = TYPE_NUMBER /\ v.number.kind = "finite"
  \/ v.type = TYPE_ARRAY /\ Len(v.array) = 1
       /\ v.array[1].type = TYPE_NUMBER /\ v.array[1].number.kind = "finite"
  \/ v.type = TYPE_OBJECT /\ DOMAIN v.object # {}
       /\ \A k \in DOMAIN v.object :
            v.object[k].type = TYPE_NUMBER
              /\ v.object[k].number.kind = "finite"

\* the integer part or the fraction on the medium holds a digit
MantissaDigit == IntPart # <<>> \/ Len(FracPart) >= 2

\* C26: whatever the flags, a number is returned only for a text whose
\* integer part or fraction holds a decimal digit; a text such as ".",
\* "-." or ".e1" gives a syntax_error.
C26_MantissaDigit ==
  (ParsedWhole /\ Len(segments) = 6) =>
    /\ (outcome = "value" /\ HoldsFinite(Last(returned))) => MantissaDigit
    /\ (~MantissaDigit /\ FracPart # <<>>) => outcome = "syntax_error"

\* the same statement when leading_decimal_point and trailing_decimal_point
\* are not both on
C26_MantissaDigitOneFlag ==
  (ParsedWhole
     /\ has_flag(call.arg.flags, leading_decimal_point)
     /\ has_flag(call.arg.flags, trailing_decimal_point))
    \/ C26_MantissaDigit

-----------------------------------------------------------------------------
(* C30 *)

RECURSIVE Spelled(_, _)
\* the integer that the first k characters of the digit string ds spell
Spelled(ds, k) ==
  IF k = 0 THEN 0 ELSE Spelled(ds, k - 1) * 10 + (ds[k] - C("0"))

\* the number a digit string without leading zero denotes, as the model
\* keeps a double: its first Precision digits and the count of the others
DecimalValue(negative, ds) ==
  IF Len(ds) <= Precision THEN Finite(negative, Spelled(ds, Len(ds)), 0)
  ELSE Finite(negative, Spelled(ds, Precision), Len(ds) - Precision)

\* the medium holds a decimal integer alone: digits without a leading zero,
\* no fraction and no exponent
IntegerLiteral ==
  /\ Len(segments) = 6 /\ ~Wrapped
  /\ IntPart # <<>> /\ (Len(IntPart) > 1 => IntPart[1] # C("0"))
  /\ FracPart = <<>> /\ ExpPart = <<>>

\* C30: a parse of a decimal integer literal returns the number its digit
\* string denotes, however long the digit string is.
C30_IntegerValue ==
  (ParsedWhole /\ IntegerLiteral /\ SignAllowed(call.arg.flags)) =>
    /\ outcome = "value"
    /\ Last(returned)
         = NumberValue(DecimalValue(SignPart = Txt(<<"-">>), IntPart))

\* the same statement for the digit strings of at most nineteen digits,
\* which denote numbers below 2^64
C30_IntegerValueShort ==
  (Len(segments) = 6 /\ Len(IntPart) <= 19) => C30_IntegerValue

-----------------------------------------------------------------------------
(* C29 *)

\* the container on the medium, and what stands between its trailing comma
\* and its closing bracket
TrailingOpen == CHOOSE o \in TrailingOpens : o.text = segments[1]
TrailingGap == Concat(SubSeq(segments, 3, Len(segments) - 1))

\* the key of the container, if it has one, is one the flags allow
KeyAllowed(fl) ==
  segments[1] # Txt(<<"{","a",":","1">>) \/ has_flag(fl, unquoted_key)

\* C29: with trailing_comma on, a container whose trailing comma is
\* followed by whitespace and enabled comments before the closing bracket
\* parses to the value it has without them.
C29_TrailingGap ==
  (ParsedWhole /\ has_flag(call.arg.flags, trailing_comma)
     /\ KeyAllowed(call.arg.flags)
     /\ BlankFrom(TrailingGap, 1, call.arg.flags)) =>
    /\ outcome = "value"
    /\ Last(returned) = TrailingOpen.value

\* the same statement when the bracket stands right after the comma
C29_TrailingNoGap ==
  (TrailingGap = <<>>) => C29_TrailingGap

-----------------------------------------------------------------------------
(* C27: copy-assigning to a value from a source that aliases it - the value
   itself, or one of its own elements - completes and leaves the
   destination equal to the value the source had before the assignment. *)

C27_AliasAssign ==
  call.op = "alias_assign" =>
    /\ outcome = "value"
    /\ vals[call.arg.name] = call.arg.src

\* the same for x = x with x a null, a boolean or a number, where the
\* payload has no destructor to run
C27_AliasAssignTrivial ==
  (call.op = "alias_assign" /\ call.arg.self
     /\ call.arg.src.type \in TrivialTypes) =>
    /\ outcome = "value"
    /\ vals[call.arg.name] = call.arg.src

-----------------------------------------------------------------------------
(* C28: every parse call on a finite text ends, with a value or with a
   syntax error, and no loop goes on reading once the end of the input has
   been met. A call finds the input at its end at most twice: once in the
   loop that was reading, and once more when a number that the end of input
   closed is followed by the skip of the spaces after it. A text cut short
   before the byte that ends its value gives a syntax error that names the
   end of the input, whichever loop was reading. *)

\* the text parsed stops before the byte that ends its value
CutShort ==
  \E m \in Manuscripts : \E n \in 0..(m.needs - 1) :
    input = Beginning(m.text, n)

C28_Terminates ==
  (call.op \in ParseOps) =>
    /\ outcome \in {"value", "syntax_error"}
    /\ in_pos <= Len(input)
    /\ call.arg.eofs <= 2
    /\ call.arg.eofs > 0 => in_fail
    /\ (ParsedWhole /\ call.op = "parse5" /\ CutShort) =>
         /\ outcome = "syntax_error"
         /\ error.ch = EOF
         /\ call.arg.eofs >= 1

\* a text cut short inside a comment, a string, a number, a key, an array
\* or an object was parsed, and the end of the input was met twice
C28_Witness ==
  /\ ParsedWhole /\ call.op = "parse5" /\ CutShort
  /\ input # <<>>
  /\ outcome = "syntax_error" /\ error.ch = EOF
  /\ call.arg.eofs = 2

=============================================================================
